---- MODULE Spec2Model ----
(***************************************************************************)
(* NewsHub content-repository synchronisation: the GitHub contents-API     *)
(* clients (GitHubAPI in admin/admin.js, GitHubAutomation in the           *)
(* automation module) and the document mutators built on them              *)
(* (PostManager, CategoryManager, GitHubAutomation.addPost/updatePost/     *)
(* deletePost, BatchOperations).                                           *)
(*                                                                         *)
(* JavaScript objects are functions from their present keys to values, so  *)
(* an absent key is a key outside DOMAIN and {...a, ...b} is Merge(a, b).  *)
(* Strings that the code takes apart (titles, slugs) are sequences of      *)
(* one-character strings.  Every `await` on the network is a step of its   *)
(* own: the other session may act between a call's read, its version      *)
(* fetch and its PUT.                                                      *)
(***************************************************************************)
EXTENDS Integers, Sequences, FiniteSets, TLC

VARIABLES
    store,   \* the remote repository: path -> [sha, content]; sha = 0: no such file
    now,     \* the clock read by Date.now() and new Date()
    calls,   \* number of calls started so far (bounds the exploration)
    sess,    \* per session: the running call's position and local variables
    browser  \* a reader's browser tab: ViewCounter, DataService and the homepage

vars == <<store, now, calls, sess, browser>>

----------------------------------------------------------------------------
(* Bounds of the exploration *)

MaxCalls == 2
TicksPerDay == 2

\* longest title of the exhaustive part of the slug exploration
MaxTitleLen == 4

\* most trackView / init calls per slug in one browsing session
MaxTracks == 3

\* most calls a page makes of DataService itself
MaxDataCalls == 3

\* most clicks on Load More
MaxClicks == 3

(* String.prototype.substring(0, 100) in generateSlug *)
SlugMax == 100

----------------------------------------------------------------------------
(* JavaScript objects and strings *)

EmptyObj == [k \in {} |-> 0]

Has(o, k) == k \in DOMAIN o

\* {...a, ...b}
Merge(a, b) ==
    [k \in DOMAIN a \cup DOMAIN b |-> IF k \in DOMAIN b THEN b[k] ELSE a[k]]

Min(a, b) == IF a <= b THEN a ELSE b

UpperChars == <<"A","B","C","D","E","F","G","H","I","J","K","L","M",
                "N","O","P","Q","R","S","T","U","V","W","X","Y","Z">>
LowerChars == <<"a","b","c","d","e","f","g","h","i","j","k","l","m",
                "n","o","p","q","r","s","t","u","v","w","x","y","z">>
Digits == {"0","1","2","3","4","5","6","7","8","9"}
Whitespace == {" ", "\t", "\n"}
Hyphen == {"-"}
\* a character outside Latin-1, on which btoa throws
NonLatin1 == {"U+20AC"}

Range(f) == {f[i] : i \in DOMAIN f}

toLowerCase(text) ==
    [i \in 1..Len(text) |->
        IF \E j \in 1..Len(UpperChars) : UpperChars[j] = text[i]
        THEN LowerChars[CHOOSE j \in 1..Len(UpperChars) : UpperChars[j] = text[i]]
        ELSE text[i]]

\* .replace(/[^a-z0-9\s-]/g, '')
IsSlugChar(c) == c \in Range(LowerChars) \cup Digits \cup Whitespace \cup Hyphen
\* generateSlug without the strip of other characters
StripNonSlug_none(text) == text
StripNonSlug(text) == SelectSeq(text, IsSlugChar)

\* the text after its leading run of the class (the end of one regex match)
DropRun(text, class) ==
    IF \A i \in 1..Len(text) : text[i] \in class THEN <<>>
    ELSE SubSeq(text,
                CHOOSE i \in 1..Len(text) :
                    text[i] \notin class /\ \A j \in 1..(i - 1) : text[j] \in class,
                Len(text))

\* .replace(/<class>+/g, '-'): the text up to the next match is copied, the
\* match (a maximal run of the class) becomes one hyphen, and the scan goes on
\* after it
RECURSIVE ReplaceRuns(_, _)
ReplaceRuns(text, class) ==
    IF \A i \in 1..Len(text) : text[i] \notin class THEN text
    ELSE LET first == CHOOSE i \in 1..Len(text) :
                        text[i] \in class /\ \A j \in 1..(i - 1) : text[j] \notin class
         IN  SubSeq(text, 1, first - 1) \o <<"-">>
                \o ReplaceRuns(DropRun(SubSeq(text, first, Len(text)), class), class)

substring(text, n) == SubSeq(text, 1, Min(Len(text), n))

\* generateSlug without .replace(/-+/g, '-')
generateSlug_noCollapse(text) ==
    substring(ReplaceRuns(StripNonSlug(toLowerCase(text)), Whitespace), SlugMax)

\* GitHubAutomation.generateSlug
generateSlug(text) ==
    substring(
        ReplaceRuns(ReplaceRuns(StripNonSlug(toLowerCase(text)), Whitespace), Hyphen),
        SlugMax)

\* AdminUI.generateSlug
AdminUI_generateSlug(title) ==
    substring(
        ReplaceRuns(ReplaceRuns(StripNonSlug(toLowerCase(title)), Whitespace), Hyphen),
        SlugMax)

\* new Date().toISOString().split('T')[0]: the calendar day of a clock value
ISODate(t) == <<t \div TicksPerDay>>

----------------------------------------------------------------------------
(* Paths, sessions and the inputs the calls are explored with *)

PostsPath == "data/posts.json"
CategoriesPath == "data/categories.json"
SitePath == "data/site.json"
Paths == {PostsPath, CategoriesPath, SitePath}
\* an uploaded image's path and its base64 payload
ImagePath == "assets/images/a.png"
ImageContent == <<"iVBORw0KGgo=">>
AllPaths == Paths \cup {ImagePath}

\* one admin-panel browser session (GitHubAPI) and one automation run (GitHubAutomation)
Sessions == {"admin", "auto"}

TitleOld == <<"O","l","d">>
TitleB == <<"B"," ","2">>
TitleHello == <<"H","i",","," "," ","A","!">>
TitleNew == <<"N","e","w">>
TitleEuro == <<"U+20AC","5">>
SlugOld == <<"o","l","d">>
SlugB == <<"b","-","2">>
SlugNone == <<"n","o">>

SeedOld == [id |-> 1, slug |-> SlugOld, title |-> TitleOld, date |-> <<0>>,
            views |-> 5, category |-> "tech"]
SeedB == [id |-> 2, slug |-> SlugB, title |-> TitleB, date |-> <<0>>,
          views |-> 9, category |-> "world"]
SeedPosts == <<SeedB, SeedOld>>
SeedCategories == <<[id |-> 1, slug |-> <<"t","e","c","h">>, name |-> <<"T","e","c","h">>]>>

\* the clock's values: the instant after the seeded records were made, and a
\* later one (two calls read the same instant, or one reads a later instant)
FirstTick == Len(SeedPosts) + 1
LastTick == FirstTick + 1

PlainPost == [title |-> TitleHello, category |-> "tech"]
EuroPost == [title |-> TitleEuro]
PostInputs == {PlainPost, EuroPost}

Views42 == [views |-> 42]
Retitle == [title |-> TitleNew]
RetitleKeepSlug == [title |-> TitleNew, slug |-> SlugOld]
Patches == {Views42, Retitle, RetitleKeepSlug}
Keys == {SlugOld, SlugNone}
\* update(slug, patch) calls: every patch on a seeded slug, one on a slug no
\* record ever has (a seeded slug matches nothing either once its record is
\* retitled or deleted, or in a repository without posts)
UpdateCalls == {[slug |-> SlugOld, patch |-> p] : p \in Patches}
                \cup {[slug |-> SlugNone, patch |-> Views42]}

\* titles the slug functions are explored with: every string up to MaxTitleLen
\* over letters of both cases, a digit, whitespace, hyphen and punctuation,
\* and titles twice as long as the slug limit whose character at the limit
\* is a letter, a space or a hyphen
TitleChars == {"a", "B", "7", " ", "-", "!"}
ShortTitles == UNION {[1..n -> TitleChars] : n \in 0..MaxTitleLen}
LongTitles ==
    {[i \in 1..(2 * SlugMax) |-> IF i = SlugMax THEN c ELSE "a"] : c \in {"a", " ", "-"}}
Titles == ShortTitles \cup LongTitles

\* site settings that carry a lastUpdated of their own, and a category list
SiteSettingsInputs == {[siteName |-> <<"N","H">>, lastUpdated |-> 0]}
CategoryListInputs == {SeedCategories}

CategoryInputs == {[name |-> TitleNew]}

UpdateBatches == {<<[slug |-> SlugOld, data |-> Views42],
                    [slug |-> SlugNone, data |-> Views42],
                    [slug |-> SlugB, data |-> Retitle]>>,
                  <<[slug |-> SlugOld, data |-> Retitle]>>}
DeleteBatches == {<<SlugOld, SlugNone>>}
ImportBatches == {<<PlainPost, EuroPost>>}
\* batches of the batch-operation exploration: records that can all be
\* written, and a record btoa rejects followed by records that can
SecondPost == [title |-> TitleNew, category |-> "world"]
WritableImport == <<PlainPost, SecondPost>>
MixedImport == <<EuroPost, PlainPost, SecondPost>>
BatchImports == {WritableImport, MixedImport}

----------------------------------------------------------------------------
(* The contents API as the clients see it *)

\* btoa(JSON.stringify(content, null, 2)): the encoded text, a non-empty string
Encode(doc) == <<doc>>
\* JSON.parse(atob(data.content.replace(/\n/g, '')))
Decode(text) == Head(text)

TextOf(r) == {r[k] : k \in DOMAIN r \cap {"title", "slug", "name"}}
ListOf(doc) ==
    IF Has(doc, "posts") THEN doc.posts
    ELSE IF Has(doc, "categories") THEN doc.categories ELSE <<>>
\* btoa throws InvalidCharacterError on a character above U+00FF
Encodable(doc) ==
    \A i \in 1..Len(ListOf(doc)) :
        \A t \in TextOf(ListOf(doc)[i]) : Range(t) \cap NonLatin1 = {}

\* GET /contents/<path>: the response the store gives; up = FALSE is a
\* failure that is not a 404 (credentials, rate limit, network). The store
\* answers for a file too large to be inlined with an empty content field
GetResponse(path, up) ==
    IF ~up THEN [ok |-> FALSE, status |-> 500]
    ELSE IF store[path].sha = 0 THEN [ok |-> FALSE, status |-> 404]
    ELSE [ok |-> TRUE, status |-> 200, sha |-> store[path].sha,
          content |-> IF store[path].inline THEN store[path].content ELSE <<>>]

\* PUT /contents/<path>: the store takes a create without sha and an update
\* whose sha is the file's current one
StoreAccepts(path, body) ==
    IF store[path].sha = 0 THEN ~Has(body, "sha")
    ELSE Has(body, "sha") /\ body.sha = store[path].sha

StoreAfterPut(path, body) ==
    [store EXCEPT ![path] = [sha |-> store[path].sha + 1, content |-> body.content,
                             inline |-> TRUE]]

\* DELETE /contents/<path>: the store removes an existing file when the sha
\* sent is its current one
StoreAcceptsDelete(path, body) ==
    store[path].sha # 0 /\ Has(body, "sha") /\ body.sha = store[path].sha

StoreAfterDelete(path) ==
    [store EXCEPT ![path] = [sha |-> 0, content |-> <<>>, inline |-> TRUE]]

\* the JSON document a path holds (the empty object when there is none)
Doc(path) ==
    IF store[path].sha = 0 THEN EmptyObj ELSE Decode(store[path].content)

----------------------------------------------------------------------------
(* Session records *)

Client(s) == IF s = "admin" THEN "GitHubAPI" ELSE "GitHubAutomation"

NoResults == [success |-> <<>>, failed |-> <<>>]

\* a session between calls
IdleSession ==
    [pc |-> "idle", op |-> "none", path |-> PostsPath, key |-> <<>>,
     input |-> EmptyObj, queue |-> <<>>, results |-> NoResults,
     status |-> 0, data |-> EmptyObj, readSha |-> 0, content |-> EmptyObj,
     request |-> EmptyObj, ret |-> EmptyObj, err |-> "none",
     gets |-> 0, puts |-> 0, deletes |-> 0, wrote |-> 0, wroteSha |-> 0]

Begin(op, path, key, input, queue) ==
    [IdleSession EXCEPT !.op = op, !.path = path, !.key = key,
                        !.input = input, !.queue = queue]

CanCall(s, client) ==
    /\ sess[s].pc \in {"idle", "done"}
    /\ Client(s) = client
    /\ calls < MaxCalls

\* what a call keeps of its read: the response's status, the parsed document
\* and (for the properties) the version the document had and the number of
\* getFile requests the call has sent
Observed(l, path, up, r) ==
    [l EXCEPT !.status = GetResponse(path, up).status, !.data = r.value,
              !.readSha = IF r.threw THEN 0 ELSE store[path].sha,
              !.gets = @ + 1]

TruthyNum(o, k) == Has(o, k) /\ o[k] # 0
TruthyStr(o, k) == Has(o, k) /\ o[k] # <<>>

\* currentData.posts || []
PostsOf(data) == IF Has(data, "posts") THEN data.posts ELSE <<>>
CategoriesOf(data) == IF Has(data, "categories") THEN data.categories ELSE <<>>

\* posts.findIndex(p => p.slug === slug), 1-based; 0 stands for -1
findIndex(posts, slug) ==
    IF \E i \in 1..Len(posts) : Has(posts[i], "slug") /\ posts[i].slug = slug
    THEN CHOOSE i \in 1..Len(posts) :
            /\ Has(posts[i], "slug") /\ posts[i].slug = slug
            /\ \A j \in 1..(i - 1) : ~(Has(posts[j], "slug") /\ posts[j].slug = slug)
    ELSE 0

\* posts.filter(p => p.slug !== slug)
FilterOut(posts, slugs) ==
    LET keep(p) == ~(Has(p, "slug") /\ p.slug \in slugs) IN SelectSeq(posts, keep)

----------------------------------------------------------------------------
(* GitHubAutomation: repository client *)

DefaultFor(path) ==
    CASE path = PostsPath -> [posts |-> <<>>]
      [] path = CategoriesPath -> [categories |-> <<>>]
      [] OTHER -> EmptyObj

\* getFile without its 404 branch: not-found is thrown like any other failure
getFile_throwsOn404(path, resp) ==
    IF ~resp.ok THEN [threw |-> TRUE, value |-> EmptyObj]
    ELSE IF resp.content # <<>>
         THEN [threw |-> FALSE, value |-> Decode(resp.content)]
         ELSE [threw |-> FALSE, value |-> [sha |-> resp.sha, content |-> resp.content]]

\* GitHubAutomation.getFile: [threw, value]
getFile(path, resp) ==
    IF ~resp.ok
    THEN IF resp.status = 404 /\ path \in Paths
         THEN [threw |-> FALSE, value |-> DefaultFor(path)]
         ELSE [threw |-> TRUE, value |-> EmptyObj]
    ELSE IF resp.content # <<>>
         THEN [threw |-> FALSE, value |-> Decode(resp.content)]
         ELSE [threw |-> FALSE, value |-> [sha |-> resp.sha, content |-> resp.content]]

\* GitHubAutomation.getFileSHA: [threw, value]; value 0 is null
getFileSHA(path, resp) ==
    IF ~resp.ok
    THEN IF resp.status = 404
         THEN [threw |-> FALSE, value |-> 0]
         ELSE [threw |-> TRUE, value |-> 0]
    ELSE [threw |-> FALSE, value |-> resp.sha]

\* createOrUpdateFile without the `if (sha)` test: the sha key is always set
PutBody_alwaysSha(content, sha, isBase64) ==
    [content |-> IF isBase64 THEN content ELSE Encode(content),
     branch |-> "main", sha |-> sha]

\* the request body createOrUpdateFile builds: sha attached only if truthy
PutBody(content, sha, isBase64) ==
    Merge([content |-> IF isBase64 THEN content ELSE Encode(content),
           branch |-> "main"],
          IF sha # 0 THEN [sha |-> sha] ELSE EmptyObj)

\* GitHubAutomation.updatePosts: the document handed to updateFile
updatePosts(posts, t) == [posts |-> posts, lastUpdated |-> t]

\* GitHubAutomation.updateCategories: the document handed to updateFile
updateCategoriesContent(categories, t) ==
    [categories |-> categories, lastUpdated |-> t]

\* updateSiteSettings with the spread after the stamp: { lastUpdated, ...settings }
updateSiteSettingsContent_callerWins(settings, t) ==
    Merge([lastUpdated |-> t], settings)

\* GitHubAutomation.updateSiteSettings: { ...settings, lastUpdated }
updateSiteSettingsContent(settings, t) ==
    Merge(settings, [lastUpdated |-> t])

----------------------------------------------------------------------------
(* How a call ends, and BatchOperations.importPosts' loop around addPost *)

\* importPosts' try/catch around one addPost: record the outcome, go on
importPostsRecord(l, e) ==
    LET results ==
            IF e = "none"
            THEN [l.results EXCEPT !.success = Append(@, l.ret)]
            ELSE [l.results EXCEPT
                    !.failed = Append(@, [data |-> Head(l.queue), error |-> e])]
        rest == Tail(l.queue)
    IN  IF rest = <<>>
        THEN [l EXCEPT !.pc = "done", !.err = "none", !.queue = rest,
                       !.results = results, !.ret = results]
        ELSE [l EXCEPT !.pc = "get", !.queue = rest, !.results = results]

\* the call returns (e = "none") or throws e to its caller
Finish(l, e) ==
    IF l.op = "importPosts" THEN importPostsRecord(l, e)
    ELSE [l EXCEPT !.pc = "done", !.err = e]

----------------------------------------------------------------------------
(* GitHubAutomation: document mutators, up to the await in createOrUpdateFile *)

\* addPost adding the record with push instead of unshift
unshift_push(posts, newPost) == Append(posts, newPost)

\* posts.unshift(newPost)
unshift(posts, newPost) == <<newPost>> \o posts

\* addPost without the views default
NewPost_noViews(post, t) ==
    Merge([id |-> IF TruthyNum(post, "id") THEN post.id ELSE t,
           slug |-> IF TruthyStr(post, "slug") THEN post.slug
                    ELSE generateSlug(post.title),
           date |-> IF TruthyStr(post, "date") THEN post.date ELSE ISODate(t)],
          post)

\* the record addPost builds
NewPost(post, t) ==
    Merge([id |-> IF TruthyNum(post, "id") THEN post.id ELSE t,
           slug |-> IF TruthyStr(post, "slug") THEN post.slug
                    ELSE generateSlug(post.title),
           date |-> IF TruthyStr(post, "date") THEN post.date ELSE ISODate(t),
           views |-> 0],
          post)

addPostBody(l, post, up) ==
    LET r == getFile(PostsPath, GetResponse(PostsPath, up))
        posts == PostsOf(r.value)
        read == Observed(l, PostsPath, up, r)
    IN  IF r.threw THEN Finish(read, "fetch")
        ELSE IF ~TruthyStr(post, "slug") /\ ~Has(post, "title")
        THEN Finish(read, "type")
        ELSE [read EXCEPT !.pc = "sha", !.ret = NewPost(post, now),
                !.content = updatePosts(unshift(posts, NewPost(post, now)), now)]

\* the record updatePost puts at posts[index]
UpdatedPost(old, updates) ==
    Merge(Merge(old, updates),
          [slug |-> IF TruthyStr(updates, "title")
                    THEN generateSlug(updates.title) ELSE old.slug])

\* updatePost without the index === -1 test: the list is written back as read
updatePostBody_noCheck(l, slug, updates, up) ==
    LET r == getFile(PostsPath, GetResponse(PostsPath, up))
        posts == PostsOf(r.value)
        index == findIndex(posts, slug)
        read == Observed(l, PostsPath, up, r)
    IN  IF r.threw THEN Finish(read, "fetch")
        ELSE [read EXCEPT !.pc = "sha",
                !.ret = IF index = 0 THEN EmptyObj
                        ELSE UpdatedPost(posts[index], updates),
                !.content = updatePosts(
                    IF index = 0 THEN posts
                    ELSE [posts EXCEPT ![index] = UpdatedPost(posts[index], updates)],
                    now)]

updatePostBody(l, slug, updates, up) ==
    LET r == getFile(PostsPath, GetResponse(PostsPath, up))
        posts == PostsOf(r.value)
        index == findIndex(posts, slug)
        read == Observed(l, PostsPath, up, r)
    IN  IF r.threw THEN Finish(read, "fetch")
        ELSE IF index = 0 THEN Finish(read, "notfound")
        ELSE [read EXCEPT !.pc = "sha", !.ret = UpdatedPost(posts[index], updates),
                !.content = updatePosts(
                    [posts EXCEPT ![index] = UpdatedPost(posts[index], updates)], now)]

\* deletePost without the `if (!post)` test: the filtered list is written anyway
deletePostBody_noCheck(l, slug, up) ==
    LET r == getFile(PostsPath, GetResponse(PostsPath, up))
        posts == PostsOf(r.value)
        read == Observed(l, PostsPath, up, r)
    IN  IF r.threw THEN Finish(read, "fetch")
        ELSE [read EXCEPT !.pc = "sha", !.ret = [value |-> TRUE],
                !.content = updatePosts(FilterOut(posts, {slug}), now)]

deletePostBody(l, slug, up) ==
    LET r == getFile(PostsPath, GetResponse(PostsPath, up))
        posts == PostsOf(r.value)
        read == Observed(l, PostsPath, up, r)
    IN  IF r.threw THEN Finish(read, "fetch")
        ELSE IF findIndex(posts, slug) = 0 THEN Finish(read, "notfound")
        ELSE [read EXCEPT !.pc = "sha", !.ret = [value |-> TRUE],
                !.content = updatePosts(FilterOut(posts, {slug}), now)]

\* bulkUpdate's loop with updatedCount++ outside the `if (index !== -1)`
RECURSIVE ApplyUpdates_countsAll(_, _, _)
ApplyUpdates_countsAll(posts, updates, count) ==
    IF updates = <<>> THEN [posts |-> posts, updatedCount |-> count]
    ELSE LET update == Head(updates)
             index == findIndex(posts, update.slug)
         IN  IF index # 0
             THEN ApplyUpdates_countsAll(
                    [posts EXCEPT ![index] = Merge(posts[index], update.data)],
                    Tail(updates), count + 1)
             ELSE ApplyUpdates_countsAll(posts, Tail(updates), count + 1)

\* bulkUpdate's loop: [posts, updatedCount] after the instructions in order
RECURSIVE ApplyUpdates(_, _, _)
ApplyUpdates(posts, updates, count) ==
    IF updates = <<>> THEN [posts |-> posts, updatedCount |-> count]
    ELSE LET update == Head(updates)
             index == findIndex(posts, update.slug)
         IN  IF index # 0
             THEN ApplyUpdates(
                    [posts EXCEPT ![index] = Merge(posts[index], update.data)],
                    Tail(updates), count + 1)
             ELSE ApplyUpdates(posts, Tail(updates), count)

bulkUpdateBody(l, updates, up) ==
    LET r == getFile(PostsPath, GetResponse(PostsPath, up))
        done == ApplyUpdates(PostsOf(r.value), updates, 0)
        read == Observed(l, PostsPath, up, r)
    IN  IF r.threw THEN Finish(read, "fetch")
        ELSE [read EXCEPT !.pc = "sha",
                !.ret = [updated |-> done.updatedCount, total |-> Len(updates)],
                !.content = updatePosts(done.posts, now)]

bulkDeleteBody(l, slugs, up) ==
    LET r == getFile(PostsPath, GetResponse(PostsPath, up))
        posts == PostsOf(r.value)
        filteredPosts == FilterOut(posts, Range(slugs))
        read == Observed(l, PostsPath, up, r)
    IN  IF r.threw THEN Finish(read, "fetch")
        ELSE [read EXCEPT !.pc = "sha",
                !.ret = [deleted |-> Len(posts) - Len(filteredPosts),
                         requested |-> Len(slugs)],
                !.content = updatePosts(filteredPosts, now)]

----------------------------------------------------------------------------
(* GitHubAPI (admin panel): repository client and document mutators *)

\* GitHubAPI.getFile: [threw, value]
GitHubAPI_getFile(path, resp) ==
    IF ~resp.ok
    THEN IF resp.status = 404 /\ path \in Paths
         THEN [threw |-> FALSE, value |-> DefaultFor(path)]
         ELSE [threw |-> TRUE, value |-> EmptyObj]
    ELSE IF resp.content # <<>>
         THEN [threw |-> FALSE, value |-> Decode(resp.content)]
         ELSE [threw |-> FALSE, value |-> [sha |-> resp.sha, content |-> resp.content]]

\* GitHubAPI.getFileSHA: [threw, value]; value 0 is null
GitHubAPI_getFileSHA(path, resp) ==
    IF ~resp.ok
    THEN IF resp.status = 404
         THEN [threw |-> FALSE, value |-> 0]
         ELSE [threw |-> TRUE, value |-> 0]
    ELSE [threw |-> FALSE, value |-> resp.sha]

\* the request body GitHubAPI.updateFile builds
GitHubAPI_PutBody(content, sha) ==
    Merge([content |-> Encode(content)],
          IF sha # 0 THEN [sha |-> sha] ELSE EmptyObj)

\* PostManager.create starting a new list instead of adding to the one it read
PostManager_unshift_dropsRead(posts, newPost) == <<newPost>>

\* posts.unshift(newPost) in PostManager.create
PostManager_unshift(posts, newPost) == <<newPost>> \o posts

\* categories.push(newCategory) in CategoryManager.create
CategoryManager_push(categories, newCategory) == Append(categories, newCategory)

\* the request body GitHubAPI.uploadImage builds: the payload goes as it is
GitHubAPI_uploadBody(base64Content, sha) ==
    Merge([content |-> base64Content],
          IF sha # 0 THEN [sha |-> sha] ELSE EmptyObj)

\* the request body GitHubAPI.deleteFile sends
GitHubAPI_DeleteBody(sha) == [sha |-> sha]

\* GitHubAPI.deleteFile without the `if (!sha)` test
GitHubAPI_deleteFileBody_noCheck(l, r) ==
    IF r.threw THEN Finish(l, "sha")
    ELSE [l EXCEPT !.pc = "delete", !.deletes = @ + 1,
                   !.request = GitHubAPI_DeleteBody(r.value)]

\* GitHubAPI.deleteFile from the answer of getFileSHA to the DELETE request
GitHubAPI_deleteFileBody(l, r) ==
    IF r.threw THEN Finish(l, "sha")
    ELSE IF r.value = 0 THEN Finish(l, "notfound")
    ELSE [l EXCEPT !.pc = "delete", !.deletes = @ + 1,
                   !.request = GitHubAPI_DeleteBody(r.value)]

\* the record PostManager.create builds
PostManager_newPost(postData, t) ==
    Merge(Merge([id |-> t, slug |-> AdminUI_generateSlug(postData.title)], postData),
          [views |-> 0,
           date |-> IF TruthyStr(postData, "date") THEN postData.date ELSE ISODate(t)])

PostManager_createBody(l, postData, up) ==
    LET r == GitHubAPI_getFile(PostsPath, GetResponse(PostsPath, up))
        posts == PostsOf(r.value)
        read == Observed(l, PostsPath, up, r)
    IN  IF r.threw THEN Finish(read, "fetch")
        ELSE IF ~Has(postData, "title") THEN Finish(read, "type")
        ELSE [read EXCEPT !.pc = "sha", !.ret = PostManager_newPost(postData, now),
                !.content = [posts |-> PostManager_unshift(
                                            posts, PostManager_newPost(postData, now)),
                             lastUpdated |-> now]]

\* the record PostManager.update puts at posts[index]
PostManager_updatedPost(old, postData) ==
    Merge(Merge(old, postData), [slug |-> AdminUI_generateSlug(postData.title)])

PostManager_updateBody(l, slug, postData, up) ==
    LET r == GitHubAPI_getFile(PostsPath, GetResponse(PostsPath, up))
        posts == PostsOf(r.value)
        index == findIndex(posts, slug)
        read == Observed(l, PostsPath, up, r)
    IN  IF r.threw THEN Finish(read, "fetch")
        ELSE IF index = 0 THEN Finish(read, "notfound")
        ELSE IF ~Has(postData, "title") THEN Finish(read, "type")
        ELSE [read EXCEPT !.pc = "sha",
                !.ret = PostManager_updatedPost(posts[index], postData),
                !.content = [posts |-> [posts EXCEPT ![index] =
                                PostManager_updatedPost(posts[index], postData)],
                             lastUpdated |-> now]]

PostManager_deleteBody(l, slug, up) ==
    LET r == GitHubAPI_getFile(PostsPath, GetResponse(PostsPath, up))
        posts == PostsOf(r.value)
        read == Observed(l, PostsPath, up, r)
    IN  IF r.threw THEN Finish(read, "fetch")
        ELSE IF findIndex(posts, slug) = 0 THEN Finish(read, "notfound")
        ELSE [read EXCEPT !.pc = "sha", !.ret = [value |-> TRUE],
                !.content = [posts |-> FilterOut(posts, {slug}), lastUpdated |-> now]]

\* the record CategoryManager.create builds
CategoryManager_newCategory(categoryData, t) ==
    Merge([id |-> t, slug |-> AdminUI_generateSlug(categoryData.name)], categoryData)

CategoryManager_createBody(l, categoryData, up) ==
    LET r == GitHubAPI_getFile(CategoriesPath, GetResponse(CategoriesPath, up))
        categories == CategoriesOf(r.value)
        read == Observed(l, CategoriesPath, up, r)
    IN  IF r.threw THEN Finish(read, "fetch")
        ELSE IF ~Has(categoryData, "name") THEN Finish(read, "type")
        ELSE [read EXCEPT !.pc = "sha",
                !.ret = CategoryManager_newCategory(categoryData, now),
                !.content = [categories |->
                                CategoryManager_push(categories,
                                    CategoryManager_newCategory(categoryData, now)),
                             lastUpdated |-> now]]

----------------------------------------------------------------------------
(* The reader's browser tab *)

\* slugs of the posts a reader opens
ViewSlugs == {SlugOld, SlugB}

\* the tab when it opens: empty sessionStorage, nothing requested
BrowserInit ==
    [sessionStorage |-> {},
     tracked |-> [slug \in ViewSlugs |-> 0],
     hits |-> [slug \in ViewSlugs |-> 0],
     gets |-> [slug \in ViewSlugs |-> 0],
     inFlight |-> [slug \in ViewSlugs |-> 0]]

\* sessionStorage as a call finds it: working, refusing access (getItem
\* throws) or full (setItem throws)
StorageStates == {"ok", "denied", "full"}

\* trackView that marks the slug only after the hit request has answered
trackViewSent_marksAfterFetch(b, postSlug, storage) ==
    IF storage = "denied" THEN b
    ELSE IF postSlug \in b.sessionStorage THEN b
    ELSE IF storage = "full" THEN b
    ELSE [b EXCEPT !.hits[postSlug] = @ + 1, !.inFlight[postSlug] = @ + 1]

\* ViewCounter.trackView up to its await: the sessionStorage test, the mark
\* and the hit request; an exception of sessionStorage is caught and ends it
trackViewSent(b, postSlug, storage) ==
    IF storage = "denied" THEN b
    ELSE IF postSlug \in b.sessionStorage THEN b
    ELSE IF storage = "full" THEN b
    ELSE [b EXCEPT !.sessionStorage = @ \cup {postSlug},
                   !.hits[postSlug] = @ + 1, !.inFlight[postSlug] = @ + 1]

----------------------------------------------------------------------------
(* Actions *)

Init ==
    /\ store \in
        {[p \in AllPaths |-> [sha |-> 0, content |-> <<>>, inline |-> TRUE]],
         [p \in AllPaths |->
            CASE p = PostsPath ->
                    [sha |-> 1,
                     content |-> Encode([posts |-> SeedPosts, lastUpdated |-> 0]),
                     inline |-> TRUE]
              [] p = CategoriesPath ->
                    [sha |-> 1,
                     content |-> Encode([categories |-> SeedCategories,
                                         lastUpdated |-> 0]),
                     inline |-> TRUE]
              [] OTHER -> [sha |-> 0, content |-> <<>>, inline |-> TRUE]]}
    /\ now = FirstTick
    /\ calls = 0
    /\ sess = [s \in Sessions |-> IdleSession]
    /\ browser = BrowserInit

\* time passes; once no call can start or read the clock again, the clock's
\* further values are never observed and the exploration stops advancing it
Tick ==
    /\ now < LastTick
    /\ calls < MaxCalls \/ \E s \in Sessions : sess[s].pc = "get"
    /\ now' = now + 1
    /\ UNCHANGED <<store, calls, sess, browser>>

(* A call starts and runs to its first suspension after its read has answered. *)

addPost(s, post, up) ==
    /\ CanCall(s, "GitHubAutomation")
    /\ calls' = calls + 1
    /\ UNCHANGED <<store, now, browser>>
    /\ sess' = [sess EXCEPT ![s] =
          addPostBody(Begin("addPost", PostsPath, <<>>, post, <<>>), post, up)]

updatePost(s, slug, updates, up) ==
    /\ CanCall(s, "GitHubAutomation")
    /\ calls' = calls + 1
    /\ UNCHANGED <<store, now, browser>>
    /\ sess' = [sess EXCEPT ![s] =
          updatePostBody(Begin("updatePost", PostsPath, slug, updates, <<>>),
                         slug, updates, up)]

deletePost(s, slug, up) ==
    /\ CanCall(s, "GitHubAutomation")
    /\ calls' = calls + 1
    /\ UNCHANGED <<store, now, browser>>
    /\ sess' = [sess EXCEPT ![s] =
          deletePostBody(Begin("deletePost", PostsPath, slug, EmptyObj, <<>>), slug, up)]

importPosts(s, postsData, up) ==
    /\ CanCall(s, "GitHubAutomation")
    /\ calls' = calls + 1
    /\ UNCHANGED <<store, now, browser>>
    /\ sess' = [sess EXCEPT ![s] =
          addPostBody(Begin("importPosts", PostsPath, <<>>,
                            [postsData |-> postsData], postsData),
                      Head(postsData), up)]

\* importPosts: the read of the next record's addPost answers
importPostsNext(s, up) ==
    /\ sess[s].pc = "get"
    /\ sess' = [sess EXCEPT ![s] = addPostBody(sess[s], Head(sess[s].queue), up)]
    /\ UNCHANGED <<store, now, calls, browser>>

bulkUpdate(s, updates, up) ==
    /\ CanCall(s, "GitHubAutomation")
    /\ calls' = calls + 1
    /\ UNCHANGED <<store, now, browser>>
    /\ sess' = [sess EXCEPT ![s] =
          bulkUpdateBody(Begin("bulkUpdate", PostsPath, <<>>, EmptyObj, updates),
                         updates, up)]

bulkDelete(s, slugs, up) ==
    /\ CanCall(s, "GitHubAutomation")
    /\ calls' = calls + 1
    /\ UNCHANGED <<store, now, browser>>
    /\ sess' = [sess EXCEPT ![s] =
          bulkDeleteBody(Begin("bulkDelete", PostsPath, <<>>, EmptyObj, slugs),
                         slugs, up)]

\* a plain read: GitHubAutomation.getFile as syncData issues it
readFile(s, path, up) ==
    LET l == Begin("getFile", path, <<>>, EmptyObj, <<>>)
        r == getFile(path, GetResponse(path, up))
    IN  /\ CanCall(s, "GitHubAutomation")
        /\ calls' = calls + 1
        /\ UNCHANGED <<store, now, browser>>
        /\ sess' = [sess EXCEPT ![s] =
              IF r.threw THEN Finish(Observed(l, path, up, r), "fetch")
              ELSE Finish([Observed(l, path, up, r) EXCEPT !.ret = r.value], "none")]

\* uploadImage's createOrUpdateFile(path, base64Content, message, true):
\* starts with getFileSHA
uploadImage(s, path, base64Content) ==
    /\ CanCall(s, "GitHubAutomation")
    /\ calls' = calls + 1
    /\ UNCHANGED <<store, now, browser>>
    /\ sess' = [sess EXCEPT ![s] =
          [Begin("uploadImage", path, <<>>, EmptyObj, <<>>) EXCEPT
                !.pc = "sha", !.content = base64Content]]

\* createOrUpdateFile: getFileSHA answers, the body is built, the PUT is sent
createOrUpdateFile_sha(s, up) ==
    LET l == sess[s]
        r == getFileSHA(l.path, GetResponse(l.path, up))
    IN  /\ l.pc = "sha"
        /\ Client(s) = "GitHubAutomation"
        /\ sess' = [sess EXCEPT ![s] =
                IF r.threw THEN Finish(l, "sha")
                ELSE IF l.op # "uploadImage" /\ ~Encodable(l.content)
                THEN Finish(l, "encode")
                ELSE [l EXCEPT !.pc = "put", !.puts = @ + 1,
                               !.request = PutBody(l.content, r.value,
                                                   l.op = "uploadImage")]]
        /\ UNCHANGED <<store, now, calls, browser>>

\* createOrUpdateFile retrying a refused PUT: it fetches the version again
createOrUpdateFile_put_retry(s, up) ==
    LET l == sess[s]
    IN  /\ l.pc = "put"
        /\ Client(s) = "GitHubAutomation"
        /\ IF up /\ StoreAccepts(l.path, l.request)
           THEN /\ store' = StoreAfterPut(l.path, l.request)
                /\ sess' = [sess EXCEPT ![s] =
                        Finish([l EXCEPT !.wrote = @ + 1,
                                         !.wroteSha = store[l.path].sha + 1], "none")]
           ELSE /\ UNCHANGED store
                /\ sess' = [sess EXCEPT ![s] = [l EXCEPT !.pc = "sha"]]
        /\ UNCHANGED <<now, calls, browser>>

\* createOrUpdateFile: the PUT answers
createOrUpdateFile_put(s, up) ==
    LET l == sess[s]
    IN  /\ l.pc = "put"
        /\ Client(s) = "GitHubAutomation"
        /\ IF up /\ StoreAccepts(l.path, l.request)
           THEN /\ store' = StoreAfterPut(l.path, l.request)
                /\ sess' = [sess EXCEPT ![s] =
                        Finish([l EXCEPT !.wrote = @ + 1,
                                         !.wroteSha = store[l.path].sha + 1], "none")]
           ELSE /\ UNCHANGED store
                /\ sess' = [sess EXCEPT ![s] =
                        Finish(l, IF up THEN "conflict" ELSE "put")]
        /\ UNCHANGED <<now, calls, browser>>

PostManager_create(s, postData, up) ==
    /\ CanCall(s, "GitHubAPI")
    /\ calls' = calls + 1
    /\ UNCHANGED <<store, now, browser>>
    /\ sess' = [sess EXCEPT ![s] =
          PostManager_createBody(Begin("create", PostsPath, <<>>, postData, <<>>),
                                 postData, up)]

PostManager_update(s, slug, postData, up) ==
    /\ CanCall(s, "GitHubAPI")
    /\ calls' = calls + 1
    /\ UNCHANGED <<store, now, browser>>
    /\ sess' = [sess EXCEPT ![s] =
          PostManager_updateBody(Begin("update", PostsPath, slug, postData, <<>>),
                                 slug, postData, up)]

PostManager_delete(s, slug, up) ==
    /\ CanCall(s, "GitHubAPI")
    /\ calls' = calls + 1
    /\ UNCHANGED <<store, now, browser>>
    /\ sess' = [sess EXCEPT ![s] =
          PostManager_deleteBody(Begin("delete", PostsPath, slug, EmptyObj, <<>>),
                                 slug, up)]

CategoryManager_create(s, categoryData, up) ==
    /\ CanCall(s, "GitHubAPI")
    /\ calls' = calls + 1
    /\ UNCHANGED <<store, now, browser>>
    /\ sess' = [sess EXCEPT ![s] =
          CategoryManager_createBody(
              Begin("createCategory", CategoriesPath, <<>>, categoryData, <<>>),
              categoryData, up)]

\* PostManager.getAll, CategoryManager.getAll: a plain GitHubAPI.getFile
GitHubAPI_readFile(s, path, up) ==
    LET l == Begin("getFile", path, <<>>, EmptyObj, <<>>)
        r == GitHubAPI_getFile(path, GetResponse(path, up))
    IN  /\ CanCall(s, "GitHubAPI")
        /\ calls' = calls + 1
        /\ UNCHANGED <<store, now, browser>>
        /\ sess' = [sess EXCEPT ![s] =
              IF r.threw THEN Finish(Observed(l, path, up, r), "fetch")
              ELSE Finish([Observed(l, path, up, r) EXCEPT !.ret = r.value], "none")]

\* GitHubAPI.uploadImage(filePath, base64Content): starts with getFileSHA
GitHubAPI_uploadImage(s, filePath, base64Content) ==
    /\ CanCall(s, "GitHubAPI")
    /\ calls' = calls + 1
    /\ UNCHANGED <<store, now, browser>>
    /\ sess' = [sess EXCEPT ![s] =
          [Begin("uploadImage", filePath, <<>>, EmptyObj, <<>>) EXCEPT
                !.pc = "sha", !.content = base64Content]]

\* GitHubAPI.updateFile / uploadImage: getFileSHA answers, the body is built,
\* the PUT is sent
GitHubAPI_updateFile_sha(s, up) ==
    LET l == sess[s]
        r == GitHubAPI_getFileSHA(l.path, GetResponse(l.path, up))
    IN  /\ l.pc = "sha"
        /\ Client(s) = "GitHubAPI"
        /\ sess' = [sess EXCEPT ![s] =
                IF r.threw THEN Finish(l, "sha")
                ELSE IF l.op = "uploadImage"
                THEN [l EXCEPT !.pc = "put", !.puts = @ + 1,
                               !.request = GitHubAPI_uploadBody(l.content, r.value)]
                ELSE IF ~Encodable(l.content) THEN Finish(l, "encode")
                ELSE [l EXCEPT !.pc = "put", !.puts = @ + 1,
                               !.request = GitHubAPI_PutBody(l.content, r.value)]]
        /\ UNCHANGED <<store, now, calls, browser>>

\* GitHubAPI.updateFile: the PUT answers
GitHubAPI_updateFile_put(s, up) ==
    LET l == sess[s]
    IN  /\ l.pc = "put"
        /\ Client(s) = "GitHubAPI"
        /\ IF up /\ StoreAccepts(l.path, l.request)
           THEN /\ store' = StoreAfterPut(l.path, l.request)
                /\ sess' = [sess EXCEPT ![s] =
                        Finish([l EXCEPT !.wrote = @ + 1,
                                         !.wroteSha = store[l.path].sha + 1], "none")]
           ELSE /\ UNCHANGED store
                /\ sess' = [sess EXCEPT ![s] =
                        Finish(l, IF up THEN "conflict" ELSE "put")]
        /\ UNCHANGED <<now, calls, browser>>

\* GitHubAutomation.updateCategories(categories): builds the document and
\* hands it to updateFile, which starts with getFileSHA
updateCategories(s, categories) ==
    /\ CanCall(s, "GitHubAutomation")
    /\ calls' = calls + 1
    /\ UNCHANGED <<store, now, browser>>
    /\ sess' = [sess EXCEPT ![s] =
          [Begin("updateCategories", CategoriesPath, <<>>,
                 [categories |-> categories], <<>>) EXCEPT
                !.pc = "sha", !.content = updateCategoriesContent(categories, now)]]

\* GitHubAutomation.updateSiteSettings(settings)
updateSiteSettings(s, settings) ==
    /\ CanCall(s, "GitHubAutomation")
    /\ calls' = calls + 1
    /\ UNCHANGED <<store, now, browser>>
    /\ sess' = [sess EXCEPT ![s] =
          [Begin("updateSiteSettings", SitePath, <<>>, settings, <<>>) EXCEPT
                !.pc = "sha", !.content = updateSiteSettingsContent(settings, now)]]

\* GitHubAPI.deleteFile(path): starts with getFileSHA
GitHubAPI_deleteFile(s, path) ==
    /\ CanCall(s, "GitHubAPI")
    /\ calls' = calls + 1
    /\ UNCHANGED <<store, now, browser>>
    /\ sess' = [sess EXCEPT ![s] =
          [Begin("deleteFile", path, <<>>, EmptyObj, <<>>) EXCEPT !.pc = "delsha"]]

\* GitHubAPI.deleteFile: getFileSHA answers; without a sha the call throws,
\* with one the DELETE is sent
GitHubAPI_deleteFile_sha(s, up) ==
    LET l == sess[s]
        r == GitHubAPI_getFileSHA(l.path, GetResponse(l.path, up))
    IN  /\ l.pc = "delsha"
        /\ sess' = [sess EXCEPT ![s] = GitHubAPI_deleteFileBody(l, r)]
        /\ UNCHANGED <<store, now, calls, browser>>

\* GitHubAPI.deleteFile: the DELETE answers
GitHubAPI_deleteFile_delete(s, up) ==
    LET l == sess[s]
    IN  /\ l.pc = "delete"
        /\ IF up /\ StoreAcceptsDelete(l.path, l.request)
           THEN /\ store' = StoreAfterDelete(l.path)
                /\ sess' = [sess EXCEPT ![s] = Finish(l, "none")]
           ELSE /\ UNCHANGED store
                /\ sess' = [sess EXCEPT ![s] =
                        Finish(l, IF up THEN "conflict" ELSE "delete")]
        /\ UNCHANGED <<now, calls, browser>>

Next ==
    \/ Tick
    \/ \E s \in Sessions, up \in BOOLEAN :
        \/ \E post \in PostInputs : addPost(s, post, up)
        \/ \E c \in UpdateCalls : updatePost(s, c.slug, c.patch, up)
        \/ \E slug \in Keys : deletePost(s, slug, up)
        \/ \E postsData \in ImportBatches : importPosts(s, postsData, up)
        \/ importPostsNext(s, up)
        \/ \E updates \in UpdateBatches : bulkUpdate(s, updates, up)
        \/ \E slugs \in DeleteBatches : bulkDelete(s, slugs, up)
        \/ \E path \in Paths : readFile(s, path, up)
        \/ uploadImage(s, ImagePath, ImageContent)
        \/ createOrUpdateFile_sha(s, up)
        \/ createOrUpdateFile_put(s, up)
        \/ \E postData \in PostInputs : PostManager_create(s, postData, up)
        \/ \E c \in UpdateCalls : PostManager_update(s, c.slug, c.patch, up)
        \/ \E slug \in Keys : PostManager_delete(s, slug, up)
        \/ \E categoryData \in CategoryInputs : CategoryManager_create(s, categoryData, up)
        \/ \E path \in Paths : GitHubAPI_readFile(s, path, up)
        \/ GitHubAPI_uploadImage(s, ImagePath, ImageContent)
        \/ GitHubAPI_updateFile_sha(s, up)
        \/ GitHubAPI_updateFile_put(s, up)

Spec == Init /\ [][Next]_vars

\* ViewCounter.trackView(postSlug)
ViewCounter_trackView(postSlug, storage) ==
    /\ browser.tracked[postSlug] < MaxTracks
    /\ browser' = [trackViewSent(browser, postSlug, storage) EXCEPT
                        !.tracked[postSlug] = @ + 1]
    /\ UNCHANGED <<store, now, calls, sess>>

\* ViewCounter.init(postSlug, manualViews): updateDisplay asks the service for
\* the count (a get request, not a hit), then trackView runs
ViewCounter_init(postSlug, storage) ==
    /\ browser.tracked[postSlug] < MaxTracks
    /\ browser' = [trackViewSent(browser, postSlug, storage) EXCEPT
                        !.tracked[postSlug] = @ + 1, !.gets[postSlug] = @ + 1]
    /\ UNCHANGED <<store, now, calls, sess>>

\* the counting service answers a hit request (or the request fails): the
\* awaiting trackView goes on to updateDisplay or to its catch
ViewCounter_trackView_response(postSlug) ==
    /\ browser.inFlight[postSlug] > 0
    /\ browser' = [browser EXCEPT !.inFlight[postSlug] = @ - 1]
    /\ UNCHANGED <<store, now, calls, sess>>

NextViews ==
    \E postSlug \in ViewSlugs :
        \/ \E storage \in StorageStates : ViewCounter_trackView(postSlug, storage)
        \/ \E storage \in StorageStates : ViewCounter_init(postSlug, storage)
        \/ ViewCounter_trackView_response(postSlug)

SpecViews == Init /\ [][NextViews]_vars

\* Both slug functions applied to one title: each session holds the title as
\* the input of a generateSlug call and returns the slug.
----------------------------------------------------------------------------
(* DataService and the homepage, in the reader's tab *)

Documents == {"posts", "categories", "site"}

\* Array.prototype.sort with the comparator key(b) - key(a), keys[i] being
\* the key of seq[i]: descending and stable
SortDesc(seq, keys) ==
    LET n == Len(seq)
        rank(i) == Cardinality({j \in 1..n :
                        \/ keys[j] > keys[i]
                        \/ keys[j] = keys[i] /\ j < i}) + 1
    IN  [p \in 1..n |-> seq[CHOOSE i \in 1..n : rank(i) = p]]

\* Array.prototype.slice(start, end)
slice(seq, start, end) == SubSeq(seq, start + 1, Min(end, Len(seq)))

\* String.prototype.includes
includes(text, query) ==
    \E i \in 1..(Len(text) - Len(query) + 1) :
        SubSeq(text, i, i + Len(query) - 1) = query

\* getSamplePosts(); a date "2025-01-dd" is the day dd
getSamplePosts ==
    <<
    [slug |-> <<"f","u","t","u","r","e","-","o","f","-","a","i","-","2","0","2","5">>,
     title |->
          <<"T","h","e"," ","F","u","t","u","r","e"," ","o","f"," ","A","I",":",
          " ","W","h","a","t"," ","t","o"," ","E","x","p","e","c","t",
          " ","i","n"," ","2","0","2","5">>,
     excerpt |->
          <<"A","r","t","i","f","i","c","i","a","l",
          " ","i","n","t","e","l","l","i","g","e","n","c","e",
          " ","c","o","n","t","i","n","u","e","s"," ","t","o",
          " ","e","v","o","l","v","e"," ","a","t"," ","a",
          " ","r","a","p","i","d"," ","p","a","c","e",".",
          " ","H","e","r","e","'","s"," ","w","h","a","t",
          " ","e","x","p","e","r","t","s"," ","p","r","e","d","i","c","t",
          " ","f","o","r"," ","t","h","e"," ","c","o","m","i","n","g",
          " ","y","e","a","r",".">>,
     content |->
          <<"A","r","t","i","f","i","c","i","a","l",
          " ","i","n","t","e","l","l","i","g","e","n","c","e",
          " ","h","a","s"," ","b","e","c","o","m","e"," ","a","n",
          " ","i","n","t","e","g","r","a","l"," ","p","a","r","t",
          " ","o","f"," ","o","u","r"," ","d","a","i","l","y",
          " ","l","i","v","e","s",".",".",".">>,
     category |-> "technology", date |-> 15, featured |-> TRUE, views |-> 12500],
    [slug |-> <<"g","l","o","b","a","l","-","m","a","r","k","e","t","s","-","r","a","l","l","y">>,
     title |->
          <<"G","l","o","b","a","l"," ","M","a","r","k","e","t","s",
          " ","R","a","l","l","y"," ","o","n",
          " ","E","c","o","n","o","m","i","c"," ","D","a","t","a">>,
     excerpt |->
          <<"S","t","o","c","k"," ","m","a","r","k","e","t","s",
          " ","a","r","o","u","n","d"," ","t","h","e",
          " ","w","o","r","l","d"," ","s","u","r","g","e"," ","a","s",
          " ","n","e","w"," ","e","c","o","n","o","m","i","c",
          " ","i","n","d","i","c","a","t","o","r","s"," ","s","h","o","w",
          " ","p","o","s","i","t","i","v","e"," ","g","r","o","w","t","h",
          " ","t","r","e","n","d","s",".">>,
     content |->
          <<"I","n","v","e","s","t","o","r","s"," ","w","e","l","c","o","m","e","d",
          " ","t","h","e"," ","l","a","t","e","s","t",
          " ","e","c","o","n","o","m","i","c"," ","d","a","t","a",
          " ","w","i","t","h"," ","o","p","e","n",
          " ","a","r","m","s",".",".",".">>,
     category |-> "business", date |-> 14, featured |-> TRUE, views |-> 8900],
    [slug |-> <<"c","h","a","m","p","i","o","n","s","h","i","p","-","f","i","n","a","l","s">>,
     title |->
          <<"C","h","a","m","p","i","o","n","s","h","i","p",
          " ","F","i","n","a","l","s",":"," ","A",
          " ","H","i","s","t","o","r","i","c",
          " ","S","h","o","w","d","o","w","n">>,
     excerpt |->
          <<"T","h","e"," ","f","i","n","a","l"," ","m","a","t","c","h",
          " ","d","e","l","i","v","e","r","s",
          " ","u","n","f","o","r","g","e","t","t","a","b","l","e",
          " ","m","o","m","e","n","t","s"," ","a","s"," ","b","o","t","h",
          " ","t","e","a","m","s"," ","b","a","t","t","l","e",
          " ","f","o","r"," ","t","h","e"," ","t","i","t","l","e",".">>,
     content |->
          <<"I","n"," ","w","h","a","t"," ","w","i","l","l"," ","b","e",
          " ","r","e","m","e","m","b","e","r","e","d"," ","a","s",
          " ","o","n","e"," ","o","f"," ","t","h","e",
          " ","g","r","e","a","t","e","s","t",
          " ","f","i","n","a","l","s",".",".",".">>,
     category |-> "sports", date |-> 13, featured |-> TRUE, views |-> 15200],
    [slug |-> <<"b","l","o","c","k","b","u","s","t","e","r","-","r","e","c","o","r","d","s">>,
     title |->
          <<"N","e","w"," ","B","l","o","c","k","b","u","s","t","e","r",
          " ","B","r","e","a","k","s"," ","B","o","x",
          " ","O","f","f","i","c","e"," ","R","e","c","o","r","d","s">>,
     excerpt |->
          <<"T","h","e"," ","l","a","t","e","s","t",
          " ","s","u","p","e","r","h","e","r","o"," ","f","i","l","m",
          " ","s","h","a","t","t","e","r","s",
          " ","e","x","p","e","c","t","a","t","i","o","n","s",
          " ","a","n","d"," ","s","e","t","s"," ","n","e","w",
          " ","i","n","d","u","s","t","r","y",
          " ","s","t","a","n","d","a","r","d","s",".">>,
     content |->
          <<"H","o","l","l","y","w","o","o","d"," ","i","s",
          " ","c","e","l","e","b","r","a","t","i","n","g"," ","a","s",
          " ","t","h","e"," ","n","e","w","e","s","t",
          " ","a","d","d","i","t","i","o","n"," ","t","o"," ","t","h","e",
          " ","f","r","a","n","c","h","i","s","e",".",".",".">>,
     category |-> "entertainment", date |-> 12, featured |-> FALSE, views |-> 6700],
    [slug |-> <<"b","a","t","t","e","r","y","-","t","e","c","h","n","o","l","o","g","y">>,
     title |->
          <<"R","e","v","o","l","u","t","i","o","n","a","r","y",
          " ","B","a","t","t","e","r","y",
          " ","T","e","c","h","n","o","l","o","g","y",
          " ","U","n","v","e","i","l","e","d">>,
     excerpt |->
          <<"S","c","i","e","n","t","i","s","t","s",
          " ","a","n","n","o","u","n","c","e",
          " ","b","r","e","a","k","t","h","r","o","u","g","h"," ","i","n",
          " ","b","a","t","t","e","r","y",
          " ","e","f","f","i","c","i","e","n","c","y"," ","t","h","a","t",
          " ","c","o","u","l","d"," ","t","r","a","n","s","f","o","r","m",
          " ","e","l","e","c","t","r","i","c",
          " ","v","e","h","i","c","l","e","s",".">>,
     content |->
          <<"A"," ","t","e","a","m"," ","o","f",
          " ","r","e","s","e","a","r","c","h","e","r","s"," ","h","a","s",
          " ","d","e","v","e","l","o","p","e","d"," ","a"," ","n","e","w",
          " ","b","a","t","t","e","r","y",
          " ","t","e","c","h","n","o","l","o","g","y",".",".",".">>,
     category |-> "technology", date |-> 11, featured |-> FALSE, views |-> 9800],
    [slug |-> <<"s","t","a","r","t","u","p","-","f","u","n","d","i","n","g">>,
     title |->
          <<"S","t","a","r","t","u","p"," ","R","a","i","s","e","s",
          " ","$","1","0","0","M"," ","i","n"," ","S","e","r","i","e","s",
          " ","B"," ","F","u","n","d","i","n","g">>,
     excerpt |->
          <<"T","h","e"," ","f","i","n","t","e","c","h",
          " ","c","o","m","p","a","n","y"," ","p","l","a","n","s",
          " ","t","o"," ","e","x","p","a","n","d",
          " ","o","p","e","r","a","t","i","o","n","s",
          " ","g","l","o","b","a","l","l","y"," ","w","i","t","h",
          " ","f","r","e","s","h"," ","c","a","p","i","t","a","l",".">>,
     content |->
          <<"I","n"," ","a"," ","s","i","g","n"," ","o","f",
          " ","c","o","n","t","i","n","u","e","d",
          " ","i","n","v","e","s","t","o","r",
          " ","c","o","n","f","i","d","e","n","c","e",".",".",".">>,
     category |-> "business", date |-> 10, featured |-> FALSE, views |-> 5400]
    >>

getSampleCategories ==
    <<[id |-> 1, name |-> "Technology", slug |-> "technology"],
      [id |-> 2, name |-> "Business", slug |-> "business"],
      [id |-> 3, name |-> "Sports", slug |-> "sports"],
      [id |-> 4, name |-> "Entertainment", slug |-> "entertainment"],
      [id |-> 5, name |-> "Health", slug |-> "health"],
      [id |-> 6, name |-> "Science", slug |-> "science"]>>

getSampleSiteSettings ==
    [name |-> "NewsHub", tagline |-> "Your trusted source for the latest news",
     features |-> [darkMode |-> TRUE, search |-> TRUE, socialShare |-> TRUE]]

Sample(doc) ==
    CASE doc = "posts" -> getSamplePosts
      [] doc = "categories" -> getSampleCategories
      [] doc = "site" -> getSampleSiteSettings

\* what a load keeps of the fetched JSON: data.posts || [],
\* data.categories || [], data
Loaded(doc, data) ==
    CASE doc = "posts" -> IF Has(data, "posts") THEN data.posts ELSE <<>>
      [] doc = "categories" ->
            IF Has(data, "categories") THEN data.categories ELSE <<>>
      [] doc = "site" -> data

\* the posts function a call applies to the loaded list
ProjectionOf(fn) ==
    CASE fn = "renderHero" -> "getFeaturedPosts"
      [] fn = "renderLatestNews" -> "getLatestPosts"
      [] fn = "renderTrending" -> "getTrendingPosts"
      [] fn = "loadMore" -> "loadPosts"
      [] OTHER -> fn

\* a posts function applied to the array loadPosts returned: the array as the
\* function leaves it, and the value returned (getPostBySlug: <<>> is null)
Project(c, posts) ==
    LET fn == ProjectionOf(c.fn)
        bySlug(p) == p.slug = c.slug
        byCategory(p) == p.category = c.category
        byQuery(p) ==
            \/ includes(toLowerCase(p.title), toLowerCase(c.query))
            \/ includes(toLowerCase(p.excerpt), toLowerCase(c.query))
            \/ includes(toLowerCase(p.content), toLowerCase(c.query))
        isFeatured(p) == p.featured
        related(p) == p.slug # c.slug /\ p.category = c.category
        dates == [i \in 1..Len(posts) |-> posts[i].date]
        views == [i \in 1..Len(posts) |->
                    IF Has(posts[i], "views") THEN posts[i].views ELSE 0]
    IN  CASE fn = "loadPosts" -> [posts |-> posts, value |-> posts]
          [] fn = "getPostBySlug" ->
                [posts |-> posts,
                 value |-> slice(SelectSeq(posts, bySlug), 0, 1)]
          [] fn = "getPostsByCategory" ->
                [posts |-> posts, value |-> SelectSeq(posts, byCategory)]
          [] fn = "searchPosts" ->
                [posts |-> posts, value |-> SelectSeq(posts, byQuery)]
          [] fn = "getFeaturedPosts" ->
                [posts |-> posts,
                 value |-> slice(SelectSeq(posts, isFeatured), 0, c.count)]
          [] fn = "getLatestPosts" ->
                [posts |-> SortDesc(posts, dates),
                 value |-> slice(SortDesc(posts, dates), 0, c.count)]
          [] fn = "getTrendingPosts" ->
                [posts |-> SortDesc(posts, views),
                 value |-> slice(SortDesc(posts, views), 0, c.count)]
          [] fn = "getRelatedPosts" ->
                [posts |-> posts,
                 value |-> slice(SelectSeq(posts, related), 0, c.count)]

\* the documents a call loads
Needs(fn) ==
    CASE fn \in {"loadCategories", "renderFooterCategories"} -> {"categories"}
      [] fn = "loadSiteSettings" -> {"site"}
      [] fn = "renderLatestNews" -> {"posts", "categories"}
      [] OTHER -> {"posts"}

RenderFns ==
    {"renderHero", "renderLatestNews", "renderTrending", "renderFooterCategories"}

\* const postsPerPage = 8
PostsPerPage == 8

\* the homepage before HomepageRenderer.init
HomeInit ==
    [pc |-> "renderHero", await |-> {}, latest |-> <<>>, grid |-> <<>>,
     currentPage |-> 0, hidden |-> FALSE, clicks |-> 0]

NoReturn == [call |-> [fn |-> "none"], doc |-> "none", from |-> "none", value |-> <<>>]

\* the page when it opens, served is what the site holds under ./data/
PageInit(served) ==
    [served |-> served,
     cache |-> [doc \in Documents |-> <<>>],
     fetches |-> [doc \in Documents |-> 0],
     pending |-> <<>>,
     ret |-> NoReturn,
     direct |-> 0,
     home |-> HomeInit]

\* init goes on after an awaited render; setupLoadMore follows the last one
renderDone(h, fn) ==
    CASE fn = "renderHero" -> [h EXCEPT !.pc = "renderLatestNews"]
      [] fn = "renderLatestNews" ->
            [h EXCEPT !.pc = "renderTrending", !.grid = slice(h.latest, 0, 8)]
      [] fn = "renderTrending" -> [h EXCEPT !.pc = "renderFooterCategories"]
      [] fn = "renderFooterCategories" ->
            [h EXCEPT !.pc = "ready", !.currentPage = 1]

\* the Load More click handler after its await
loadMoreClicked(h, allPosts) ==
    LET start == h.currentPage * PostsPerPage
        end == start + PostsPerPage
        morePosts == slice(allPosts, start, end)
    IN  IF morePosts = <<>> THEN [h EXCEPT !.hidden = TRUE]
        ELSE [h EXCEPT !.grid = @ \o morePosts,
                       !.currentPage = @ + 1,
                       !.hidden = @ \/ end >= Len(allPosts)]

\* a load of doc made for the call c settles with the cached array
\* (from = "cache" or "fetch") or with the sample (from = "sample"), and the
\* caller goes on
Continue(b, c, doc, from) ==
    LET data == IF from = "sample" THEN Sample(doc) ELSE b.cache[doc][1]
        r == IF doc = "posts" THEN Project(c, data)
             ELSE [posts |-> data, value |-> data]
        kept == IF doc = "posts" /\ from # "sample"
                THEN [b EXCEPT !.cache["posts"] = <<r.posts>>]
                ELSE b
        returned == [kept EXCEPT !.ret = [call |-> c, doc |-> doc, from |-> from,
                                          value |-> <<r.value>>]]
        h == returned.home
        awaited == [h EXCEPT !.await = @ \ {doc},
                             !.latest = IF c.fn = "renderLatestNews" /\ doc = "posts"
                                        THEN r.value ELSE @]
    IN  IF c.fn = "loadMore"
        THEN [returned EXCEPT !.home = loadMoreClicked(h, r.value)]
        ELSE IF c.fn \in RenderFns
        THEN [returned EXCEPT !.home = IF awaited.await = {}
                                       THEN renderDone(awaited, c.fn)
                                       ELSE awaited]
        ELSE returned

\* a load that fetches whether or not the document is cached
StartDoc_noMemo(b, c, doc) ==
    [b EXCEPT !.fetches[doc] = @ + 1,
              !.pending = Append(@, [call |-> c, doc |-> doc])]

\* loadPosts / loadCategories / loadSiteSettings up to the await: the cached
\* document is returned, or the fetch is issued
StartDoc(b, c, doc) ==
    IF b.cache[doc] # <<>> THEN Continue(b, c, doc, "cache")
    ELSE [b EXCEPT !.fetches[doc] = @ + 1,
                   !.pending = Append(@, [call |-> c, doc |-> doc])]

\* a call of a DataService function or of a part of the homepage
Start(b, c) ==
    LET b0 == IF c.fn \in RenderFns
              THEN [b EXCEPT !.home.await = Needs(c.fn)] ELSE b
        b1 == IF "posts" \in Needs(c.fn) THEN StartDoc(b0, c, "posts") ELSE b0
        b2 == IF "categories" \in Needs(c.fn)
              THEN StartDoc(b1, c, "categories") ELSE b1
    IN  IF "site" \in Needs(c.fn) THEN StartDoc(b2, c, "site") ELSE b2

\* the fetch of a pending load answers
Settle(b, i, ok) ==
    LET e == b.pending[i]
        rest == [b EXCEPT !.pending =
                    SubSeq(@, 1, i - 1) \o SubSeq(@, i + 1, Len(@))]
    IN  IF ok
        THEN Continue([rest EXCEPT !.cache[e.doc] =
                            <<Loaded(e.doc, b.served[e.doc])>>],
                      e.call, e.doc, "fetch")
        ELSE Continue(rest, e.call, e.doc, "sample")

\* clearCache()
clearCache(b) ==
    [b EXCEPT !.cache = [doc \in Documents |-> <<>>],
              !.ret = [call |-> [fn |-> "clearCache"], doc |-> "none",
                       from |-> "none", value |-> <<>>]]

\* posts as the site serves them
SitePost(slug, category, date, views, featured) ==
    [slug |-> slug, title |-> slug, excerpt |-> <<>>, content |-> <<>>,
     category |-> category, date |-> date, views |-> views,
     featured |-> featured]

PostLetters == <<"a","b","c","d","e","f","g","h","i">>

SitePosts(dates, views) ==
    [i \in 1..Len(dates) |->
        SitePost(<<PostLetters[i]>>, IF i % 2 = 1 THEN "tech" ELSE "world",
                 dates[i], views[i], i <= 2)]

\* three posts, in neither date nor views order
ThreePosts == SitePosts(<<1, 3, 2>>, <<5, 1, 9>>)
\* nine posts, newest first, the newer the more read
NineAligned ==
    SitePosts(<<9, 8, 7, 6, 5, 4, 3, 2, 1>>, <<90, 80, 70, 60, 50, 40, 30, 20, 10>>)
\* nine posts, newest first, the newest the least read
NineSkewed ==
    SitePosts(<<9, 8, 7, 6, 5, 4, 3, 2, 1>>, <<1, 80, 70, 60, 50, 40, 30, 20, 10>>)

ServedCategories == [categories |-> SeedCategories, lastUpdated |-> 0]
ServedSite == [siteName |-> <<"N","H">>, lastUpdated |-> 0]

ServedAs(postsDoc) ==
    [doc \in Documents |->
        CASE doc = "posts" -> postsDoc
          [] doc = "categories" -> ServedCategories
          [] doc = "site" -> ServedSite]

ServedData ==
    {ServedAs([posts |-> ThreePosts, lastUpdated |-> 0]),
     ServedAs([lastUpdated |-> 0])}

ServedHome ==
    {ServedAs([posts |-> ThreePosts, lastUpdated |-> 0]),
     ServedAs([posts |-> NineAligned, lastUpdated |-> 0]),
     ServedAs([posts |-> NineSkewed, lastUpdated |-> 0])}

LoadFns == {"loadPosts", "loadCategories", "loadSiteSettings"}
Projections ==
    {"getPostBySlug", "getPostsByCategory", "searchPosts", "getFeaturedPosts",
     "getLatestPosts", "getTrendingPosts", "getRelatedPosts"}

DataCalls ==
    {[fn |-> "loadPosts"], [fn |-> "loadCategories"], [fn |-> "loadSiteSettings"],
     [fn |-> "getPostBySlug", slug |-> <<"b">>],
     [fn |-> "getPostsByCategory", category |-> "tech"],
     [fn |-> "searchPosts", query |-> <<"A">>],
     [fn |-> "getFeaturedPosts", count |-> 5],
     [fn |-> "getLatestPosts", count |-> 12],
     [fn |-> "getTrendingPosts", count |-> 4],
     [fn |-> "getRelatedPosts", slug |-> <<"a">>, category |-> "tech", count |-> 4]}

\* the page is the only thing running
PageOnly ==
    /\ store = [p \in AllPaths |-> [sha |-> 0, content |-> <<>>, inline |-> TRUE]]
    /\ now = FirstTick
    /\ calls = 0
    /\ sess = [s \in Sessions |-> IdleSession]

InitData ==
    /\ PageOnly
    /\ \E served \in ServedData : browser = Merge(BrowserInit, PageInit(served))

DataService_call(c) ==
    /\ browser.direct < MaxDataCalls
    /\ browser' = [Start(browser, c) EXCEPT !.direct = @ + 1]
    /\ UNCHANGED <<store, now, calls, sess>>

DataService_response(i, ok) ==
    /\ i \in 1..Len(browser.pending)
    /\ browser' = Settle(browser, i, ok)
    /\ UNCHANGED <<store, now, calls, sess>>

DataService_clearCache ==
    /\ browser.direct < MaxDataCalls
    /\ browser' = [clearCache(browser) EXCEPT !.direct = @ + 1]
    /\ UNCHANGED <<store, now, calls, sess>>

NextData ==
    \/ \E c \in DataCalls : DataService_call(c)
    \/ \E i \in 1..MaxDataCalls, ok \in BOOLEAN : DataService_response(i, ok)
    \/ DataService_clearCache

SpecData == InitData /\ [][NextData]_vars

InitHome ==
    /\ PageOnly
    /\ \E served \in ServedHome : browser = Merge(BrowserInit, PageInit(served))

\* HomepageRenderer.init: the next of its awaited renders starts
HomepageRenderer_init ==
    /\ browser.home.pc \in RenderFns
    /\ browser.home.await = {}
    /\ browser' = Start(browser,
            CASE browser.home.pc = "renderHero" -> [fn |-> "renderHero", count |-> 5]
              [] browser.home.pc = "renderLatestNews" ->
                    [fn |-> "renderLatestNews", count |-> 12]
              [] browser.home.pc = "renderTrending" ->
                    [fn |-> "renderTrending", count |-> 4]
              [] OTHER -> [fn |-> "renderFooterCategories"])
    /\ UNCHANGED <<store, now, calls, sess>>

\* a click on the Load More button
HomepageRenderer_loadMore ==
    /\ browser.home.pc = "ready"
    /\ ~browser.home.hidden
    /\ browser.home.clicks < MaxClicks
    /\ browser' = Start([browser EXCEPT !.home.clicks = @ + 1], [fn |-> "loadMore"])
    /\ UNCHANGED <<store, now, calls, sess>>

NextHome ==
    \/ HomepageRenderer_init
    \/ \E i \in 1..MaxClicks, ok \in BOOLEAN : DataService_response(i, ok)
    \/ HomepageRenderer_loadMore

SpecHome == InitHome /\ [][NextHome]_vars

\* the repository when data/posts.json has grown beyond what the store
\* inlines in a GET response, or has not
InitLarge ==
    /\ store \in
        {[p \in AllPaths |->
            CASE p = PostsPath ->
                    [sha |-> 1,
                     content |-> Encode([posts |-> SeedPosts, lastUpdated |-> 0]),
                     inline |-> inline]
              [] p = CategoriesPath ->
                    [sha |-> 1,
                     content |-> Encode([categories |-> SeedCategories,
                                         lastUpdated |-> 0]),
                     inline |-> TRUE]
              [] OTHER -> [sha |-> 0, content |-> <<>>, inline |-> TRUE]] :
         inline \in BOOLEAN}
    /\ now = FirstTick
    /\ calls = 0
    /\ sess = [s \in Sessions |-> IdleSession]
    /\ browser = BrowserInit

NextLarge ==
    \/ Tick
    \/ \E post \in PostInputs, up \in BOOLEAN : addPost("auto", post, up)
    \/ \E c \in UpdateCalls, up \in BOOLEAN : updatePost("auto", c.slug, c.patch, up)
    \/ \E k \in Keys, up \in BOOLEAN : deletePost("auto", k, up)
    \/ \E up \in BOOLEAN : createOrUpdateFile_sha("auto", up)
    \/ \E up \in BOOLEAN : createOrUpdateFile_put("auto", up)
    \/ \E post \in PostInputs, up \in BOOLEAN : PostManager_create("admin", post, up)
    \/ \E up \in BOOLEAN : GitHubAPI_updateFile_sha("admin", up)
    \/ \E up \in BOOLEAN : GitHubAPI_updateFile_put("admin", up)

SpecLarge == InitLarge /\ [][NextLarge]_vars

\* records handed to both insert implementations
OwnViews == [title |-> TitleHello, views |-> 42]
OwnIdSlug == [title |-> TitleHello, id |-> 7, slug |-> SlugOld]
InsertInputs == {PlainPost, OwnViews, OwnIdSlug}

NextInsert ==
    \/ Tick
    \/ \E post \in InsertInputs, up \in BOOLEAN : addPost("auto", post, up)
    \/ \E up \in BOOLEAN : createOrUpdateFile_sha("auto", up)
    \/ \E up \in BOOLEAN : createOrUpdateFile_put("auto", up)
    \/ \E postData \in InsertInputs, up \in BOOLEAN :
            PostManager_create("admin", postData, up)
    \/ \E up \in BOOLEAN : GitHubAPI_updateFile_sha("admin", up)
    \/ \E up \in BOOLEAN : GitHubAPI_updateFile_put("admin", up)

SpecInsert == Init /\ [][NextInsert]_vars

InitSlug ==
    /\ store = [p \in AllPaths |-> [sha |-> 0, content |-> <<>>, inline |-> TRUE]]
    /\ now = FirstTick
    /\ calls = 0
    /\ \E title \in Titles :
          sess = [s \in Sessions |->
                    Begin("generateSlug", PostsPath, <<>>, [title |-> title], <<>>)]
    /\ browser = BrowserInit

generateSlug_call ==
    /\ sess["auto"].pc = "idle"
    /\ sess' = [sess EXCEPT !["auto"] =
          Finish([sess["auto"] EXCEPT
                    !.ret = [slug |-> generateSlug(sess["auto"].input.title)]], "none")]
    /\ UNCHANGED <<store, now, calls, browser>>

AdminUI_generateSlug_call ==
    /\ sess["admin"].pc = "idle"
    /\ sess' = [sess EXCEPT !["admin"] =
          Finish([sess["admin"] EXCEPT
                    !.ret = [slug |-> AdminUI_generateSlug(sess["admin"].input.title)]],
                 "none")]
    /\ UNCHANGED <<store, now, calls, browser>>

NextSlug == generateSlug_call \/ AdminUI_generateSlug_call

SpecSlug == InitSlug /\ [][NextSlug]_vars

\* every operation that writes a JSON document, one input each, with a store
\* that answers every request (a PUT can still be refused as stale)
NextStamp ==
    \/ Tick
    \/ \E s \in Sessions :
        \/ addPost(s, PlainPost, TRUE)
        \/ updatePost(s, SlugOld, Retitle, TRUE)
        \/ deletePost(s, SlugOld, TRUE)
        \/ \E postsData \in ImportBatches : importPosts(s, postsData, TRUE)
        \/ importPostsNext(s, TRUE)
        \/ \E updates \in UpdateBatches : bulkUpdate(s, updates, TRUE)
        \/ \E slugs \in DeleteBatches : bulkDelete(s, slugs, TRUE)
        \/ \E categories \in CategoryListInputs : updateCategories(s, categories)
        \/ \E settings \in SiteSettingsInputs : updateSiteSettings(s, settings)
        \/ createOrUpdateFile_sha(s, TRUE)
        \/ createOrUpdateFile_put(s, TRUE)
        \/ PostManager_create(s, PlainPost, TRUE)
        \/ PostManager_update(s, SlugOld, Retitle, TRUE)
        \/ PostManager_delete(s, SlugOld, TRUE)
        \/ \E categoryData \in CategoryInputs : CategoryManager_create(s, categoryData, TRUE)
        \/ GitHubAPI_updateFile_sha(s, TRUE)
        \/ GitHubAPI_updateFile_put(s, TRUE)

SpecStamp == Init /\ [][NextStamp]_vars

\* the batch operations of an automation run while the admin panel creates posts
NextBatch ==
    \E s \in Sessions, up \in BOOLEAN :
        \/ \E postsData \in BatchImports : importPosts(s, postsData, up)
        \/ importPostsNext(s, up)
        \/ \E updates \in UpdateBatches : bulkUpdate(s, updates, up)
        \/ \E slugs \in DeleteBatches : bulkDelete(s, slugs, up)
        \/ createOrUpdateFile_sha(s, up)
        \/ createOrUpdateFile_put(s, up)
        \/ \E postData \in PostInputs : PostManager_create(s, postData, up)
        \/ GitHubAPI_updateFile_sha(s, up)
        \/ GitHubAPI_updateFile_put(s, up)

SpecBatch == Init /\ [][NextBatch]_vars

\* the admin panel deleting files while it and the automation write them
NextDelete ==
    \E s \in Sessions, up \in BOOLEAN :
        \/ \E path \in AllPaths : GitHubAPI_deleteFile(s, path)
        \/ GitHubAPI_deleteFile_sha(s, up)
        \/ GitHubAPI_deleteFile_delete(s, up)
        \/ \E categoryData \in CategoryInputs : CategoryManager_create(s, categoryData, up)
        \/ GitHubAPI_uploadImage(s, ImagePath, ImageContent)
        \/ GitHubAPI_updateFile_sha(s, up)
        \/ GitHubAPI_updateFile_put(s, up)
        \/ \E post \in PostInputs : addPost(s, post, up)
        \/ uploadImage(s, ImagePath, ImageContent)
        \/ createOrUpdateFile_sha(s, up)
        \/ createOrUpdateFile_put(s, up)

SpecDelete == Init /\ [][NextDelete]_vars

----------------------------------------------------------------------------
(* Vocabulary of the properties *)

InsertOps == {"addPost", "create"}
UpdateOps == {"updatePost", "update"}
RemoveOps == {"deletePost", "delete"}
Mutators == {"addPost", "create", "createCategory", "updatePost", "update",
             "deletePost", "delete", "importPosts", "bulkUpdate", "bulkDelete"}

Done(s) == sess[s].pc = "done"
Returned(s) == Done(s) /\ sess[s].err = "none"
\* the call's read was answered with a document or with not-found
HasRead(s) == sess[s].status \in {200, 404}
\* no record of the list has this slug
NoRecordHasSlug(list, slug) ==
    \A i \in 1..Len(list) : ~(Has(list[i], "slug") /\ list[i].slug = slug)
\* the path's document is still the one session s wrote
HoldsWriteOf(s) == store[sess[s].path].sha = sess[s].wroteSha

----------------------------------------------------------------------------
(* C1: when two sessions' mutator calls read the same version of the same
   document and both submit their write, exactly one of the two calls
   succeeds and the other fails with a conflict error. *)
C1_ExactlyOneWriterWins ==
    \A s, t \in Sessions :
        ( /\ s # t
          /\ Done(s) /\ Done(t)
          /\ sess[s].op \in Mutators \ {"importPosts"}
          /\ sess[t].op \in Mutators \ {"importPosts"}
          /\ sess[s].path = sess[t].path
          /\ HasRead(s) /\ HasRead(t)
          /\ sess[s].readSha = sess[t].readSha /\ sess[s].readSha # 0
          /\ sess[s].puts = 1 /\ sess[t].puts = 1
          /\ {sess[s].err, sess[t].err} \subseteq {"none", "conflict"} )
        => {sess[s].err, sess[t].err} = {"none", "conflict"}

(* C2: no lost update: when two insert calls on data/posts.json have both
   returned successfully, both inserted records are in the document. *)
C2_NoLostUpdate ==
    \A s, t \in Sessions :
        ( /\ s # t
          /\ Returned(s) /\ Returned(t)
          /\ sess[s].op \in InsertOps /\ sess[t].op \in InsertOps
          /\ HoldsWriteOf(s) \/ HoldsWriteOf(t) )
        => {sess[s].ret, sess[t].ret} \subseteq Range(PostsOf(Doc(PostsPath)))

(* C3: a write first fetches the path's version; the fetch yields null
   exactly when the path has no document, and the PUT request carries a
   version token iff the fetched version is non-null, which is then the
   document's version at the fetch; so one call creates a missing document
   and updates an existing one. *)
C3_VersionAttachedIffExists ==
    [][\A s \in Sessions :
        sess'[s].puts > sess[s].puts =>
            /\ sess[s].pc = "sha" /\ sess'[s].pc = "put"
            /\ Has(sess'[s].request, "sha") <=> store[sess[s].path].sha # 0
            /\ Has(sess'[s].request, "sha") =>
                    sess'[s].request.sha = store[sess[s].path].sha]_vars

\* one session has created a document with a request without a version, the
\* other has updated one with a request that carried the version
C3_Witness ==
    \E s, t \in Sessions :
        /\ Returned(s) /\ sess[s].wrote = 1 /\ ~Has(sess[s].request, "sha")
        /\ Returned(t) /\ sess[t].wrote = 1 /\ Has(sess[t].request, "sha")
        /\ "uploadImage" \in {sess[s].op, sess[t].op}

(* C4: every operation is all-or-nothing: a call that succeeded has written
   the document (every record of a batch), and a call that failed (threw, or
   reported a failed record) has written nothing. *)
CallFailed(s) ==
    \/ sess[s].err # "none"
    \/ sess[s].op = "importPosts" /\ sess[s].results.failed # <<>>

C4_AllOrNothing ==
    \A s \in Sessions :
        (Done(s) /\ sess[s].op \in Mutators) =>
            IF CallFailed(s) THEN sess[s].wrote = 0 ELSE sess[s].wrote >= 1

(* C5: a read of a path that has never been written (the store answers 404)
   does not fail and yields the path's empty default: {posts: []},
   {categories: []} or {}; an insert that read such a path leaves a document
   holding exactly the one new record. *)
C5_NotFoundDefault ==
    \A s \in Sessions :
        sess[s].status = 404 =>
            /\ sess[s].err # "fetch"
            /\ sess[s].readSha = 0
            /\ sess[s].data =
                    CASE sess[s].path = PostsPath -> [posts |-> <<>>]
                      [] sess[s].path = CategoriesPath -> [categories |-> <<>>]
                      [] OTHER -> EmptyObj
            /\ ( /\ Returned(s) /\ HoldsWriteOf(s)
                 /\ sess[s].op \in InsertOps \cup {"createCategory"} )
               => ListOf(Doc(sess[s].path)) = <<sess[s].ret>>

\* an insert on a path that had no document has returned, and the other
\* session has read the settings path, which has none
C5_Witness ==
    \E s, t \in Sessions :
        /\ Returned(s) /\ sess[s].op \in InsertOps /\ sess[s].status = 404
        /\ HoldsWriteOf(s)
        /\ Returned(t) /\ sess[t].op = "getFile" /\ sess[t].path = SitePath
        /\ sess[t].status = 404

(* C6: insert adds exactly one record at index 0 of the list it read and
   leaves the records it read unchanged and in order, for posts and for
   categories alike. *)
InsertWrites(s) ==
    /\ sess[s].op \in InsertOps \cup {"createCategory"}
    /\ sess[s].pc \in {"sha", "put"} \/ Returned(s)

C6_InsertAtHead ==
    \A s \in Sessions :
        InsertWrites(s) =>
            ListOf(sess[s].content) = <<sess[s].ret>> \o ListOf(sess[s].data)

(* C6, amended: insert adds exactly one record to the list it read, at
   index 0 for posts and at the end for categories, and leaves the records
   it read unchanged and in order; on return the document holds that list. *)
C6_InsertKeepsRead ==
    \A s \in Sessions :
        InsertWrites(s) =>
            /\ ListOf(sess[s].content) =
                    IF sess[s].op = "createCategory"
                    THEN ListOf(sess[s].data) \o <<sess[s].ret>>
                    ELSE <<sess[s].ret>> \o ListOf(sess[s].data)
            /\ (Returned(s) /\ HoldsWriteOf(s)) =>
                    ListOf(Doc(sess[s].path)) = ListOf(sess[s].content)

\* both sessions have inserted into a list that already held records: a
\* category and a post
C6_Witness ==
    \E s, t \in Sessions :
        /\ Returned(s) /\ sess[s].op = "createCategory"
        /\ Len(ListOf(sess[s].data)) > 0 /\ HoldsWriteOf(s)
        /\ Returned(t) /\ sess[t].op \in InsertOps
        /\ Len(ListOf(sess[t].data)) > 0 /\ HoldsWriteOf(t)

(* C7: round trip: an insert of a record without id, slug, date and views
   returns a record with id = the creation time, slug = the slug derived
   from the title, date = the creation day, views = 0 and every supplied
   field as supplied; a read of the version it wrote has that record at the
   head of the list. *)
C7_RoundTrip ==
    \A s \in Sessions :
        ( /\ Returned(s) /\ sess[s].op \in InsertOps
          /\ DOMAIN sess[s].input \cap {"id", "slug", "date", "views"} = {} )
        => /\ DOMAIN sess[s].ret = DOMAIN sess[s].input \cup {"id", "slug", "date", "views"}
           /\ sess[s].ret.id = sess[s].content.lastUpdated
           /\ sess[s].ret.slug = generateSlug(sess[s].input.title)
           /\ sess[s].ret.date = ISODate(sess[s].ret.id)
           /\ sess[s].ret.views = 0
           /\ \A k \in DOMAIN sess[s].input : sess[s].ret[k] = sess[s].input[k]
           /\ \A t \in Sessions \ {s} :
                ( /\ Returned(t) /\ sess[t].op = "getFile"
                  /\ sess[t].path = PostsPath
                  /\ sess[t].readSha = sess[s].wroteSha )
                => /\ PostsOf(sess[t].ret) # <<>>
                   /\ Head(PostsOf(sess[t].ret)) = sess[s].ret

\* an insert has returned and the other session has fetched the version it wrote
C7_Witness ==
    \E s, t \in Sessions :
        /\ Returned(s) /\ sess[s].op \in InsertOps
        /\ sess[s].input = PlainPost /\ sess[s].ret.id = LastTick
        /\ Returned(t) /\ sess[t].op = "getFile" /\ sess[t].path = PostsPath
        /\ sess[t].readSha = sess[s].wroteSha
        /\ Len(PostsOf(sess[t].ret)) > 1

(* C8: merge semantics: update(slug, patch) with a patch without title, on a
   slug that a record has, succeeds, replaces exactly the patch's fields of
   that record and leaves its other fields (its slug too) and every other
   record unchanged, in PostManager.update and in updatePost. *)
C8_MergeWithoutTitle ==
    \A s \in Sessions :
        ( /\ sess[s].op \in UpdateOps /\ sess[s].pc # "idle" /\ HasRead(s)
          /\ ~Has(sess[s].input, "title")
          /\ ~NoRecordHasSlug(PostsOf(sess[s].data), sess[s].key)
          /\ sess[s].err \notin {"sha", "encode", "put", "conflict"} )
        => /\ sess[s].err = "none"
           /\ LET old == PostsOf(sess[s].data)
                  new == PostsOf(sess[s].content)
              IN  /\ Len(new) = Len(old)
                  /\ \E i \in 1..Len(old) :
                        /\ old[i].slug = sess[s].key
                        /\ new[i] = Merge(old[i], sess[s].input)
                        /\ \A j \in 1..Len(old) : j # i => new[j] = old[j]

(* C9: an update whose patch carries a new title and the record's existing
   slug keeps the slug: the record is still found under the old slug. *)
C9_ExplicitSlugKept ==
    \A s \in Sessions :
        ( /\ sess[s].op \in UpdateOps /\ sess[s].pc \in {"sha", "put", "done"}
          /\ HasRead(s)
          /\ TruthyStr(sess[s].input, "title") /\ Has(sess[s].input, "slug")
          /\ sess[s].input.slug = sess[s].key
          /\ ~NoRecordHasSlug(PostsOf(sess[s].data), sess[s].key) )
        => /\ sess[s].ret.slug = sess[s].key
           /\ ~NoRecordHasSlug(PostsOf(sess[s].content), sess[s].key)

(* C10: update(key, patch) with a key that no record's slug equals fails
   with a not-found error, sends no write request and leaves the remote
   document unchanged. *)
C10_UpdateNotFound ==
    \A s \in Sessions :
        ( /\ sess[s].op \in UpdateOps /\ sess[s].pc # "idle" /\ HasRead(s)
          /\ NoRecordHasSlug(PostsOf(sess[s].data), sess[s].key) )
        => /\ Done(s) /\ sess[s].err = "notfound"
           /\ sess[s].puts = 0 /\ sess[s].request = EmptyObj
           /\ sess[s].wrote = 0

\* both clients' update has failed to find a key in a list that holds records
C10_Witness ==
    \E s, t \in Sessions :
        /\ s # t
        /\ \A u \in {s, t} :
            /\ Done(u) /\ sess[u].op \in UpdateOps /\ sess[u].err = "notfound"
            /\ Len(PostsOf(sess[u].data)) > 0

(* C11: remove twice with the same key in one session: when a session's
   remove has succeeded and the document is still the one it wrote, the
   session's next remove with the same key fails with not-found, sends no
   write and changes nothing; the document has no record of that slug and
   holds the other records the first call read, in their order. *)
C11_SecondRemoveNotFound ==
    [][ \A s \in Sessions :
          ( /\ Returned(s) /\ sess[s].op \in RemoveOps /\ HoldsWriteOf(s)
            /\ sess'[s] # sess[s] /\ calls' = calls + 1
            /\ sess'[s].op \in RemoveOps /\ sess'[s].key = sess[s].key
            /\ sess'[s].status \in {200, 404} )
          => /\ sess'[s].pc = "done" /\ sess'[s].err = "notfound"
             /\ sess'[s].puts = 0 /\ store' = store
             /\ NoRecordHasSlug(PostsOf(Doc(PostsPath)), sess[s].key)
             /\ PostsOf(Doc(PostsPath)) =
                    FilterOut(PostsOf(sess[s].data), {sess[s].key}) ]_vars

\* the admin session removed "old" from the seeded posts and asked again
C11_Witness ==
    /\ sess["auto"] = IdleSession
    /\ Done("admin") /\ sess["admin"].op = "delete" /\ sess["admin"].key = SlugOld
    /\ sess["admin"].err = "notfound" /\ sess["admin"].readSha = 2
    /\ PostsOf(sess["admin"].data) = <<SeedB>>
    /\ PostsOf(Doc(PostsPath)) = <<SeedB>>

(* C12: deleteFile on a path without a current version fails with not-found
   and sends no DELETE request; when the path has a version, the DELETE
   request carries exactly the version getFileSHA returned. *)
C12_DeleteNeedsVersion ==
    [][ \A s \in Sessions :
          ( /\ sess[s].pc = "delsha" /\ sess'[s] # sess[s]
            /\ sess'[s].err # "sha" )
          => IF store[sess[s].path].sha = 0
             THEN /\ sess'[s].pc = "done" /\ sess'[s].err = "notfound"
                  /\ sess'[s].deletes = 0 /\ sess'[s].request = EmptyObj
                  /\ store' = store
             ELSE /\ sess'[s].pc = "delete" /\ sess'[s].deletes = 1
                  /\ sess'[s].request = [sha |-> store[sess[s].path].sha]
                  /\ store' = store ]_vars

\* a deleteFile removed a file that had been written, and the next deleteFile
\* of the same path found no version
C12_Witness ==
    /\ Done("admin") /\ sess["admin"].op = "deleteFile"
    /\ sess["admin"].err = "notfound" /\ sess["admin"].deletes = 0
    /\ sess["admin"].path = CategoriesPath
    /\ store[PostsPath].sha # 0 /\ store[CategoriesPath].sha = 0

\* the reference result for a title: of its lower-cased characters those in
\* [a-z0-9], whitespace and hyphen are kept; of every maximal run of
\* whitespace and hyphens (what a run of whitespace turned into a hyphen and
\* the hyphens around it collapse to) only the first position stays, as one
\* hyphen; the first SlugMax characters of that are the slug
RefSeparators == Whitespace \cup Hyphen
RefLower(c) ==
    IF \E j \in 1..Len(UpperChars) : UpperChars[j] = c
    THEN LowerChars[CHOOSE j \in 1..Len(UpperChars) : UpperChars[j] = c]
    ELSE c
RefKept(title) ==
    LET allowed(c) == RefLower(c) \in Range(LowerChars) \cup Digits \cup RefSeparators
        kept == SelectSeq(title, allowed)
    IN  [i \in 1..Len(kept) |-> RefLower(kept[i])]
RefSlug(title) ==
    LET k == RefKept(title)
        stays(i) == k[i] \notin RefSeparators \/ i = 1 \/ k[i - 1] \notin RefSeparators
        at == SelectSeq([i \in 1..Len(k) |-> i], stays)
        joined == [j \in 1..Len(at) |->
                     IF k[at[j]] \in RefSeparators THEN "-" ELSE k[at[j]]]
    IN  SubSeq(joined, 1, IF Len(joined) < SlugMax THEN Len(joined) ELSE SlugMax)

SlugCallDone(s) == Done(s) /\ sess[s].op = "generateSlug"

(* C13: for every title over the alphabet, GitHubAutomation.generateSlug and
   AdminUI.generateSlug both return the result of the reference pipeline
   (lowercase, strip, whitespace runs to a hyphen, hyphen runs to one, first
   100 characters), and so the same result as each other. *)
C13_SlugIsReference ==
    /\ \A s \in Sessions :
          SlugCallDone(s) => sess[s].ret.slug = RefSlug(sess[s].input.title)
    /\ (SlugCallDone("auto") /\ SlugCallDone("admin"))
          => sess["auto"].ret.slug = sess["admin"].ret.slug

\* both functions returned for a title with an upper-case letter, punctuation
\* and a run of whitespace and hyphen, and for a title longer than the limit
C13_Witness ==
    /\ SlugCallDone("auto") /\ SlugCallDone("admin")
    /\ \/ /\ sess["auto"].input.title = <<"B", "!", " ", "-">>
           /\ sess["auto"].ret.slug = <<"b", "-">>
       \/ /\ Len(sess["auto"].input.title) > SlugMax
           /\ Len(sess["auto"].ret.slug) = SlugMax

(* C14: a derived slug never begins or ends with a hyphen, and a title of 200
   slug characters yields exactly 100 characters without a trailing hyphen. *)
C14_NoEdgeHyphen ==
    \A s \in Sessions :
        SlugCallDone(s) =>
            LET slug == sess[s].ret.slug
                title == sess[s].input.title
            IN  /\ slug # <<>> => (Head(slug) # "-" /\ slug[Len(slug)] # "-")
                /\ Len(title) = 2 * SlugMax => Len(slug) = SlugMax

\* the values the records of a list have under a key are pairwise distinct
DistinctAt(list, k) ==
    \A i, j \in 1..Len(list) :
        (i # j /\ Has(list[i], k) /\ Has(list[j], k)) => list[i][k] # list[j][k]

(* C15: slug uniqueness: starting from posts with pairwise distinct slugs,
   after any sequence of insert, update and remove calls no two records of
   data/posts.json have the same slug. *)
C15_SlugsUnique == DistinctAt(PostsOf(Doc(PostsPath)), "slug")

(* C16: record ids are unique: over any sequence of insert and remove calls,
   with a clock that need not advance between two calls, no two records of
   a collection have the same id. *)
C16_IdsUnique ==
    /\ DistinctAt(PostsOf(Doc(PostsPath)), "id")
    /\ DistinctAt(CategoriesOf(Doc(CategoriesPath)), "id")

\* the instructions of a batch whose key is the slug of the record
MatchesOf(updates, record) ==
    {i \in 1..Len(updates) : Has(record, "slug") /\ updates[i].slug = record.slug}
\* the record after the instructions that match it: each field has the value
\* of the last matching instruction that carries it, or its old value
PatchedBy(updates, record) ==
    LET carrying(k) == {i \in MatchesOf(updates, record) : Has(updates[i].data, k)}
        last(k) == CHOOSE i \in carrying(k) : \A j \in carrying(k) : j <= i
    IN  [k \in DOMAIN record \cup
                UNION {DOMAIN updates[i].data : i \in MatchesOf(updates, record)} |->
            IF carrying(k) # {} THEN updates[last(k)].data[k] ELSE record[k]]

(* C17: bulkUpdate sends at most one read (getFile) and one write (the PUT of
   updateFile, which fetches the version itself); when it returns it
   has sent exactly one of each, reports total = the number of instructions
   and updated = the number of instructions whose key is the slug of a
   record it read, has written every record (of a list with distinct slugs)
   with its matching instructions applied and the others as read, and an
   instruction that matches nothing does not make the call fail. *)
C17_BulkUpdateOnce ==
    \A s \in Sessions :
        sess[s].op = "bulkUpdate" =>
            LET l == sess[s]
                read == PostsOf(l.data)
                matched == {i \in 1..Len(l.queue) : findIndex(read, l.queue[i].slug) # 0}
            IN  /\ l.gets <= 1 /\ l.puts <= 1
                /\ l.err \notin {"notfound", "type"}
                /\ Returned(s) =>
                      /\ l.gets = 1 /\ l.puts = 1 /\ l.wrote = 1
                      /\ l.ret = [updated |-> Cardinality(matched),
                                  total |-> Len(l.queue)]
                      /\ Len(l.content.posts) = Len(read)
                      /\ DistinctAt(read, "slug") =>
                            \A j \in 1..Len(read) :
                                l.content.posts[j] = PatchedBy(l.queue, read[j])

\* a bulkUpdate of three instructions, one of them without a record, returned
C17_Witness ==
    \E s \in Sessions :
        /\ Returned(s) /\ sess[s].op = "bulkUpdate"
        /\ sess[s].ret = [updated |-> 2, total |-> 3]
        /\ Len(PostsOf(Doc(PostsPath))) = 2

BatchOps == {"importPosts", "bulkUpdate", "bulkDelete"}

(* C18: importPosts and bulkDelete each send exactly one read and exactly
   one write of the document per call, whatever the size of the batch. *)
C18_BatchOneRoundTrip ==
    \A s \in Sessions :
        (Returned(s) /\ sess[s].op \in {"importPosts", "bulkDelete"})
            => sess[s].gets = 1 /\ sess[s].puts = 1

(* C19: no batch operation raises: importPosts, bulkUpdate and bulkDelete
   always return a result, and importPosts' result accounts for every input
   record exactly once, as succeeded or as failed. *)
C19_BatchNeverRaises ==
    \A s \in Sessions :
        (Done(s) /\ sess[s].op \in BatchOps) =>
            /\ sess[s].err = "none"
            /\ sess[s].op = "importPosts" =>
                  Len(sess[s].results.success) + Len(sess[s].results.failed)
                      = Len(sess[s].input.postsData)

\* calls that are one write of the repository client or one single-record
\* mutator (importPosts is a loop of addPost calls)
SingleWriteOps == (Mutators \ BatchOps) \cup {"uploadImage"}

(* C20: no automatic retry: a repository-client write or single-record
   mutator sends at most one read and at most one write request; a version
   fetch that fails and a PUT that the store does not take end the call with
   the failure, and a failed call sends nothing more (the session's next
   step is a new call). *)
C20_NoRetry ==
    [][ \A s \in Sessions :
          LET l == sess[s]
              m == sess'[s]
          IN  (l.op \in SingleWriteOps /\ m # l) =>
                /\ l.pc = "done" => calls' = calls + 1
                /\ l.pc = "sha" =>
                      \/ m.pc = "put" /\ m.puts = 1 /\ m.err = "none"
                      \/ m.pc = "done" /\ m.err \in {"sha", "encode"} /\ m.puts = 0
                /\ l.pc = "put" =>
                      /\ m.pc = "done" /\ m.puts = 1 /\ m.gets <= 1
                      /\ IF store' = store THEN m.err \in {"conflict", "put"}
                         ELSE m.err = "none" /\ m.wrote = 1 ]_vars

\* a single-record mutator's PUT was refused and the call ended with it
C20_Witness ==
    \E s \in Sessions :
        /\ Done(s) /\ sess[s].op \in SingleWriteOps
        /\ sess[s].err \in {"conflict", "put"}
        /\ sess[s].puts = 1 /\ sess[s].wrote = 0

\* the operations that write a JSON document
StampedOps == Mutators \cup {"updateCategories", "updateSiteSettings"}

(* C21: every mutator stamps the document it writes with the time of the
   operation: the document a call builds has lastUpdated = the clock at that
   moment, whatever lastUpdated the caller's data carried, and the document
   in the store after the call's successful write has that lastUpdated. *)
C21_LastUpdatedStamped ==
    [][ \A s \in Sessions :
          /\ ( /\ sess'[s].op \in StampedOps
               /\ sess'[s].pc = "sha" /\ sess[s].pc # "sha" )
             => /\ sess'[s].content.lastUpdated = now
                /\ Has(sess'[s].input, "lastUpdated")
                      => sess'[s].content.lastUpdated # sess'[s].input.lastUpdated
          /\ ( /\ sess[s].op \in StampedOps
               /\ sess[s].pc = "put" /\ sess'[s].wrote = sess[s].wrote + 1 )
             => /\ Decode(store'[sess[s].path].content).lastUpdated
                      = sess[s].content.lastUpdated
                /\ sess[s].content.lastUpdated <= now ]_vars

\* updateSiteSettings was given settings with their own lastUpdated and wrote
\* the document at a later time than the seeded documents were written
C21_Witness ==
    \E s \in Sessions :
        /\ Returned(s) /\ sess[s].op = "updateSiteSettings"
        /\ Has(sess[s].input, "lastUpdated") /\ HoldsWriteOf(s)
        /\ Doc(SitePath).lastUpdated = LastTick
        /\ Doc(SitePath).siteName = sess[s].input.siteName

(* C22: in one browsing session, under any number and interleaving of
   trackView and init calls for a slug, at most one hit request for that
   slug is sent to the counting service. *)
C22_OneHitPerSession ==
    \A slug \in ViewSlugs :
        /\ browser.hits[slug] <= 1
        /\ browser.hits[slug] = 1 <=> slug \in browser.sessionStorage

\* a second call for the slug was made while the first one's hit request was
\* still unanswered
C22_Witness ==
    \E slug \in ViewSlugs :
        /\ browser.tracked[slug] >= 2
        /\ browser.hits[slug] = 1 /\ browser.inFlight[slug] = 1

(* C23: bulkUpdate with the single instruction {slug: k, data: p} builds the
   document that updatePost(k, p) builds from the same read, whenever a
   record has the slug k. *)
C23_BulkUpdateAsUpdate ==
    [][ \A s \in Sessions :
          ( /\ sess'[s].op = "bulkUpdate" /\ calls' = calls + 1
            /\ Len(sess'[s].queue) = 1
            /\ sess'[s].status \in {200, 404} )
          => LET k == sess'[s].queue[1].slug
                 p == sess'[s].queue[1].data
                 single == updatePostBody(Begin("updatePost", PostsPath, k, p, <<>>),
                                          k, p, TRUE)
             IN  single.pc = "sha" =>
                     /\ sess'[s].pc = "sha"
                     /\ single.content = sess'[s].content ]_vars

Reverse(seq) == [i \in 1..Len(seq) |-> seq[Len(seq) + 1 - i]]

\* the session's call is the only call made since the repository was set up
OnlyCallSoFar(s) ==
    calls = 1 /\ \A t \in Sessions \ {s} : sess[t] = IdleSession

(* C24: importPosts finishes the read-mutate-write of a record before it
   reads for the next one; with no other writer and no failure, after the
   import the document holds the imported records at the head, in reverse
   input order, followed by the records that were there before. *)
C24_ImportInOrder ==
    \A s \in Sessions :
        sess[s].op = "importPosts" =>
            LET l == sess[s]
                recorded == Len(l.results.success) + Len(l.results.failed)
                before == IF store[CategoriesPath].sha # 0 THEN SeedPosts ELSE <<>>
            IN  /\ l.pc \in {"sha", "put"} => l.gets = recorded + 1
                /\ l.pc \in {"get", "done"} => l.gets = recorded
                /\ (Done(s) /\ l.results.failed = <<>> /\ OnlyCallSoFar(s)) =>
                      /\ Len(l.results.success) = Len(l.input.postsData)
                      /\ \A i \in 1..Len(l.results.success) :
                            l.results.success[i].title = l.input.postsData[i].title
                      /\ PostsOf(Doc(PostsPath)) = Reverse(l.results.success) \o before

\* two different records were imported into the seeded posts
C24_Witness ==
    \E s \in Sessions :
        /\ Done(s) /\ sess[s].op = "importPosts" /\ OnlyCallSoFar(s)
        /\ sess[s].results.failed = <<>> /\ Len(sess[s].results.success) = 2
        /\ sess[s].results.success[1].slug # sess[s].results.success[2].slug
        /\ Len(PostsOf(Doc(PostsPath))) = 2 + Len(SeedPosts)

\* the step is a direct DataService call answered from the cache
AnsweredFromCache ==
    /\ browser'.direct = browser.direct + 1
    /\ browser'.pending = browser.pending
    /\ browser'.ret.from = "cache"

\* the step is the answer to a fetch
FetchAnswered == Len(browser'.pending) < Len(browser.pending)

(* C25: the projections are read-only: a projection answered from the cache
   leaves the cached posts list as it was, and one answered by a fetch
   leaves in the cache the list as it was fetched. *)
C25_ProjectionsReadOnly ==
    [][ /\ (AnsweredFromCache /\ browser'.ret.call.fn \in Projections)
            => browser'.cache["posts"] = browser.cache["posts"]
        /\ (FetchAnswered /\ browser'.ret.from = "fetch"
                /\ browser'.ret.call.fn \in Projections)
            => browser'.cache["posts"] =
                    <<Loaded("posts", browser.served["posts"])>> ]_vars

(* C26: a document is fetched only while it is not cached; a fetch that
   succeeds caches its document; a cached document leaves the cache only by
   clearCache, which empties all three entries; a fetch that fails changes
   no entry and the load returns the sample. *)
C26_OneShotMemo ==
    [][ /\ \A doc \in Documents :
            /\ browser'.fetches[doc] > browser.fetches[doc]
                    => browser.cache[doc] = <<>>
            /\ (browser.cache[doc] # <<>> /\ browser'.cache[doc] = <<>>)
                    => browser'.ret.call.fn = "clearCache"
        /\ (FetchAnswered /\ browser'.ret.from = "fetch")
                => browser'.cache[browser'.ret.doc] # <<>>
        /\ (FetchAnswered /\ browser'.ret.from = "sample")
                => /\ browser'.cache = browser.cache
                   /\ browser'.ret.call.fn \in LoadFns
                        => browser'.ret.value = <<Sample(browser'.ret.doc)>>
        /\ (browser'.direct = browser.direct + 1
                /\ browser'.ret.call.fn = "clearCache"
                /\ browser'.pending = browser.pending)
                => \A doc \in Documents : browser'.cache[doc] = <<>> ]_vars

\* posts were fetched once, and a later load was answered from the cache
C26_Witness ==
    /\ browser.fetches["posts"] = 1
    /\ browser.direct >= 2
    /\ browser.ret.call.fn = "loadPosts" /\ browser.ret.from = "cache"

\* init has finished, posts were fetched once and that fetch succeeded
HomeLoadedOnce ==
    /\ browser.home.pc = "ready"
    /\ browser.fetches["posts"] = 1
    /\ browser.cache["posts"] # <<>>

(* C27: on the homepage, after init and any number of Load More clicks, no
   post is twice in the news grid, and once the button is hidden every
   loaded post is in the grid. *)
C27_LoadMoreShowsEachOnce ==
    HomeLoadedOnce =>
        /\ DistinctAt(browser.home.grid, "slug")
        /\ browser.home.hidden =>
                \A i \in 1..Len(browser.cache["posts"][1]) :
                    \E j \in 1..Len(browser.home.grid) :
                        browser.home.grid[j].slug = browser.cache["posts"][1][i].slug

(* C28: a mutator that reads an existing document gets the stored JSON
   document from getFile; and, with no other caller, a successful insert
   leaves every record of the document it found in the document. *)
C28_ReadsStoredDocument ==
    [][ \A s \in Sessions :
          /\ ( /\ sess'[s].op \in Mutators
               /\ sess'[s].gets = sess[s].gets + 1
               /\ sess'[s].status = 200 )
             => sess'[s].data = Doc(sess'[s].path)
          /\ ( /\ sess[s].op \in InsertOps /\ sess[s].pc = "put"
               /\ OnlyCallSoFar(s)
               /\ store'[PostsPath].sha # store[PostsPath].sha )
             => \A i \in 1..Len(PostsOf(Doc(PostsPath))) :
                    \E j \in 1..Len(PostsOf(Doc(PostsPath)')) :
                        PostsOf(Doc(PostsPath)')[j] = PostsOf(Doc(PostsPath))[i] ]_vars

\* the same, for documents the store inlines in its answer
InlinedDocumentRead ==
    [][ \A s \in Sessions :
          /\ ( /\ sess'[s].op \in Mutators
               /\ sess'[s].gets = sess[s].gets + 1
               /\ sess'[s].status = 200
               /\ store[sess'[s].path].inline )
             => sess'[s].data = Doc(sess'[s].path)
          /\ ( /\ sess[s].op \in InsertOps /\ sess[s].pc = "put"
               /\ OnlyCallSoFar(s)
               /\ store[PostsPath].inline
               /\ store'[PostsPath].sha # store[PostsPath].sha )
             => \A i \in 1..Len(PostsOf(Doc(PostsPath))) :
                    \E j \in 1..Len(PostsOf(Doc(PostsPath)')) :
                        PostsOf(Doc(PostsPath)')[j] = PostsOf(Doc(PostsPath))[i] ]_vars

\* the session has read the document and built the one to write
Built(s) == HasRead(s) /\ sess[s].err = "none" /\ sess[s].pc \in {"sha", "put", "done"}

(* C29: PostManager.create and GitHubAutomation.addPost, given the same
   record, the same document read and the same clock value, build the same
   record and the same document to write. *)
C29_InsertsAgree ==
    ( /\ sess["auto"].op = "addPost" /\ sess["admin"].op = "create"
      /\ Built("auto") /\ Built("admin")
      /\ sess["auto"].input = sess["admin"].input
      /\ sess["auto"].data = sess["admin"].data
      /\ sess["auto"].content.lastUpdated = sess["admin"].content.lastUpdated )
    => /\ sess["auto"].ret = sess["admin"].ret
       /\ sess["auto"].content = sess["admin"].content

\* the same, for records that bring no views of their own
InsertsAgreeWithoutViews ==
    ( /\ sess["auto"].op = "addPost" /\ sess["admin"].op = "create"
      /\ Built("auto") /\ Built("admin")
      /\ sess["auto"].input = sess["admin"].input
      /\ ~Has(sess["auto"].input, "views")
      /\ sess["auto"].data = sess["admin"].data
      /\ sess["auto"].content.lastUpdated = sess["admin"].content.lastUpdated )
    => /\ sess["auto"].ret = sess["admin"].ret
       /\ sess["auto"].content = sess["admin"].content

SlugAlphabet == Range(LowerChars) \cup Digits \cup Hyphen

(* C30: for every title, the slug generateSlug returns has only the
   characters a-z, 0-9 and hyphen, no two adjacent hyphens and at most 100
   characters, and generateSlug applied to it returns it unchanged; the same
   for AdminUI.generateSlug. *)
C30_SlugClosedIdempotent ==
    \A s \in Sessions :
        SlugCallDone(s) =>
            LET slug == sess[s].ret.slug
            IN  /\ Range(slug) \subseteq SlugAlphabet
                /\ \A i \in 1..(Len(slug) - 1) : ~(slug[i] = "-" /\ slug[i + 1] = "-")
                /\ Len(slug) <= SlugMax
                /\ s = "auto" => generateSlug(slug) = slug
                /\ s = "admin" => AdminUI_generateSlug(slug) = slug

\* a title with an upper-case letter, punctuation and a space gave a slug
\* with a hyphen
C30_Witness ==
    \E s \in Sessions :
        /\ SlugCallDone(s)
        /\ {"B", "!", " "} \subseteq Range(sess[s].input.title)
        /\ "-" \in Range(sess[s].ret.slug)
        /\ "b" \in Range(sess[s].ret.slug)

====
